---- MODULE Spec2Model ----
(***************************************************************************)
(* The orchestrator's idempotent doc-OCR job lifecycle                      *)
(* (src/orchestrator/app): POST/GET /agents/{name}, the job tracker over    *)
(* the shared KV store (and its in-memory stand-in), the background worker  *)
(* _process_doc_ocr and its callback, for one request id.                   *)
(*                                                                         *)
(* Every POST of the model carries the same request_id, so all of them      *)
(* address the same job key and the same lock key.  A step of the model is  *)
(* one KV operation together with the local computation and the I/O that    *)
(* precede it in the code (local steps touch no shared state).              *)
(***************************************************************************)
EXTENDS Integers, Sequences, FiniteSets, TLC

\* ---- bounds of the model -------------------------------------------------
MaxPosts == 2      \* POST requests carrying the request id
MaxFiles == 2      \* file refs of the request body
MaxTicks == 1      \* advances of the KV store's clock
MaxGets == 1       \* GET requests for the request id
MaxRetries == 3    \* largest configured DOC_OCR_CALLBACK_MAX_RETRIES
MaxRefs == 3       \* file refs of a request whose staging is followed
MaxChunks == 2     \* chunks of a download stream
MaxHeaders == 2    \* header lines of a request at the gateway
MaxRequests == 3   \* requests at the gateway's route endpoints
MaxEndpoints == 2  \* endpoints a service declares for registration
MaxCalls == 4      \* tracker calls made on both trackers side by side
MaxParams == 2     \* query parameters of a request at the gateway
MaxFileLen == 3    \* characters of a server_file name
MaxTasks == 3      \* tasks that call _init_routes_once

\* ---- program constants ---------------------------------------------------
IDEMPOTENCY_TTL_SEC == 3600
JOB_TTL_SEC == 86400
DOC_OCR_CALLBACK_BASE_DELAY_SEC == 1
RATE_LIMIT == 60              \* "60/minute"
REGISTER_MAX_ATTEMPTS == 15
REGISTER_RETRY_SECONDS == 2

Posts == 1..MaxPosts

VARIABLES
    redis,         \* app.state.redis is set (the KV client is connected)
    job,           \* KV: the job record of the request id, NoJob when absent
    jobTtl,        \* KV: seconds until the job key expires
    lock,          \* KV: the token stored under the lock key, NoToken when absent
    lockTtl,       \* KV: seconds until the lock key expires
    ticks,         \* clock advances so far
    nfiles,        \* request body: number of file refs (file first, then files)
    callback_url,  \* configured callback URL, "" when none
    max_retries,   \* configured DOC_OCR_CALLBACK_MAX_RETRIES
    pc,            \* position of each POST handler (run_agent + run)
    body,          \* the kind of body each POST carries, "none" before it arrives
    tracker,       \* the tracker _get_tracker gave the request: "redis" | "mem"
    existing,      \* run: the record get_job returned, NoJob for None
    token,         \* run: the token acquire_lock returned, NoToken for None
    memJobs,       \* InMemoryJobTracker._jobs of the request's own instance
    memLocks,      \* InMemoryJobTracker._locks of the request's own instance
    resp,          \* the HTTP response of each POST
    wpc,           \* position of the worker each POST spawned
    idx,           \* worker: index of the file ref being downloaded
    loc,           \* worker: the locals status, result, error
    attempt,       \* _send_callback: the loop variable
    delays,        \* _send_callback: the delays slept, in order
    cbOutcome,     \* _send_callback: "none" | "skip" | "ok" | "giveup"
    lastSet,       \* outcome of the latest set_status call of each POST and
                   \* its worker: the status written, or "RAISED"
    downloads,     \* number of download_to_staging calls per file ref
    gets,          \* GET requests served
    getResp,       \* response of the last GET
    file_refs,     \* staging: the file refs of the request, file first
    refno,         \* staging: idx + 1 of the download loop
    used_filenames,\* staging: the local filenames taken so far
    staged_files,  \* staging: the StagedFile of every finished download
    disk,          \* staging: the files under STAGING_DIR/<request_id>
    stage,         \* staging: position of the worker, "idle" when not modelled
    gwRequest,     \* gateway: the request at the proxy endpoint and its setting
    gwPc,          \* gateway: position of the request, "idle" when not modelled
    gwHeaders,     \* gateway: the headers dict handed to client.request
    gwUpstream,    \* gateway: what became of the forwarded request
    gwReply,       \* gateway: the response the caller gets
    gwReplyHeaders,\* gateway: the headers of that response
    routes,        \* gateway: app.state.routes, "None" or "RouteTable"
    _routes,       \* gateway: RouteTable._routes, the in-memory snapshot
    kvHash,        \* KV: the hash <REDIS_KEY_PREFIX>:routes
    kvUp,          \* KV: the store is reachable from the gateway
    boot,          \* gateway: the start-up task, "pending" | "done" | "idle"
    rq,            \* gateway: the requests at /register, /routes/reload and
                   \* the proxy endpoint, and how far each has got
    served,        \* rate limit: requests of each client in the current window
    hits,          \* rate limit: the limiter's count for each client
    rateReply,     \* rate limit: the answer to each client's latest request
    endpoints,     \* registration: number of declared endpoints
    regEp,         \* registration: index of the endpoint at hand
    regAttempt,    \* registration: the loop variable attempt
    regOk,         \* registration: the local ok
    regPc,         \* registration: position of register_to_gateway / lifespan
    regPosts,      \* registration: POSTs made per endpoint
    regSlept,      \* registration: seconds slept per endpoint
    got200,        \* registration: the endpoints a POST was answered 200 for
    cmpPc,         \* tracker comparison: whose turn it is
    cmpCall,       \* tracker comparison: the call at hand
    cmpRet,        \* tracker comparison: what the call returned on each tracker
    cmpCalls,      \* tracker comparison: calls made so far
    fwRequest,     \* forwarding: method, body and query string of the request
    fwPc,          \* forwarding: position of proxy, "idle" when not modelled
    fwParams,      \* forwarding: the local params
    fwBody,        \* forwarding: the local body
    fwWire,        \* forwarding: body and query string the upstream receives
    splitIn,       \* URL split: the server_path and server_file composed
    file_url,      \* URL split: the composed URL
    splitOut,      \* URL split: what split_url_for_esb returned
    splitPc,       \* URL split: position, "idle" when not modelled
    upIn,          \* upload: the local file and the configured base URL
    upResponse,    \* upload: the answer of the upload endpoint
    upOutcome,     \* upload: "none" | "returned" | "raised"
    upJob,         \* upload: the job record of the request
    upPc,          \* upload: position, "idle" when not modelled
    esbReq,        \* ESB download: the request's fields
    esbUrl,        \* ESB download: the local url
    esbServer,     \* ESB download: what the file server did with the GET
    esbReply,      \* ESB download: the response the caller gets
    esbPc,         \* ESB download: position, "idle" when not modelled
    routes_lock,   \* route init: app.state.routes_lock, its holder or 0
    initPc,        \* route init: position of each task in _init_routes_once
    initRet,       \* route init: what the call returned to each task
    threads,       \* route init: threads of abandoned builds still running
    installs       \* route init: tables assigned to app.state.routes so far

vars == <<redis, job, jobTtl, lock, lockTtl, ticks, nfiles, callback_url,
          max_retries, pc, body, tracker, existing, token, memJobs, memLocks, resp, wpc, idx, loc,
          attempt, delays, cbOutcome, lastSet, downloads, gets, getResp,
          file_refs, refno, used_filenames, staged_files, disk, stage,
          gwRequest, gwPc, gwHeaders, gwUpstream, gwReply, gwReplyHeaders,
          routes, _routes, kvHash, kvUp, boot, rq, served, hits, rateReply,
          endpoints, regEp, regAttempt, regOk, regPc, regPosts, regSlept, got200,
          cmpPc, cmpCall, cmpRet, cmpCalls,
          fwRequest, fwPc, fwParams, fwBody, fwWire,
          splitIn, file_url, splitOut, splitPc,
          upIn, upResponse, upOutcome, upJob, upPc,
          esbReq, esbUrl, esbServer, esbReply, esbPc,
          routes_lock, initPc, initRet, threads, installs>>

kvVars == <<job, jobTtl, lock, lockTtl>>
memVars == <<memJobs, memLocks>>
\* the worker's view of the staging directory; no step of the job lifecycle
\* below looks at it, it is followed on its own under SpecStaging
stagingVars == <<file_refs, refno, used_filenames, staged_files, disk, stage>>
\* the gateway's proxy endpoint, followed on its own under SpecGateway
gatewayVars == <<gwRequest, gwPc, gwHeaders, gwUpstream, gwReply, gwReplyHeaders>>
\* the gateway's route table, followed on its own under SpecRoutes
routesVars == <<routes, _routes, kvHash, kvUp, boot, rq>>
\* the parts of the hub that are followed on their own
\* the rate limit of the proxy endpoint, followed under SpecRate
rateVars == <<served, hits, rateReply>>
\* the orchestrator's registration at start-up, followed under SpecRegister
registerVars == <<endpoints, regEp, regAttempt, regOk, regPc, regPosts,
                  regSlept, got200>>
\* the two trackers called side by side, followed under SpecCompare
compareVars == <<cmpPc, cmpCall, cmpRet, cmpCalls>>
\* what proxy hands to client.request, followed under SpecForward
forwardVars == <<fwRequest, fwPc, fwParams, fwBody, fwWire>>
\* the components added last, each followed under a specification of its own
\* split_url_for_esb, followed under SpecSplit
splitVars == <<splitIn, file_url, splitOut, splitPc>>
\* upload_json_via_esb, followed under SpecUpload
uploadVars == <<upIn, upResponse, upOutcome, upJob, upPc>>
\* the ESB component's download endpoint, followed under SpecEsb
esbVars == <<esbReq, esbUrl, esbServer, esbReply, esbPc>>
\* the tasks inside _init_routes_once, followed under SpecInit
initVars == <<routes_lock, initPc, initRet, threads, installs>>
restVars == <<forwardVars, splitVars, uploadVars, esbVars, initVars>>
hubVars == <<routesVars, rateVars, registerVars, compareVars, restVars>>
\* what the job lifecycle reads and never writes
cfgVars == <<nfiles, callback_url, max_retries, stagingVars, gatewayVars, hubVars>>
postVars == <<pc, body, tracker, existing, token, resp>>
cbVars == <<attempt, delays, cbOutcome>>
workerVars == <<wpc, idx, loc, attempt, delays, cbOutcome>>
getVars == <<gets, getResp>>

\* ---- values ---------------------------------------------------------------
NoToken == 0
Null == "null"
Record(status, result, error) ==
    [status |-> status, result |-> result, error |-> error]
NoJob == Record("NONE", Null, Null)
Terminal == {"SUCCEEDED", "FAILED"}
Response(code, status, result, error) ==
    [code |-> code, status |-> status, result |-> result, error |-> error]
NoResp == Response(0, "NONE", Null, Null)
\* the worker's locals before the try block
InitLoc == Record("FAILED", Null, Null)

Max(a, b) == IF a > b THEN a ELSE b

RECURSIVE Pow2(_)
Pow2(n) == IF n = 0 THEN 1 ELSE 2 * Pow2(n - 1)

\* ---- the job tracker ------------------------------------------------------
\* A Redis call may raise (connection error, socket timeout); the in-memory
\* tracker cannot.
KvOutcomes(p) == IF tracker[p] = "redis" THEN {TRUE, FALSE} ELSE {TRUE}

_get_tracker == IF redis THEN "redis" ELSE "mem"

get_job(p) == IF tracker[p] = "redis" THEN job ELSE memJobs[p]

\* acquire_lock taking the lock whether or not the key is there
LockFreeUnchecked(p) == TRUE

\* acquire_lock succeeds iff the lock key is absent (SET NX EX / set membership)
LockFree(p) == IF tracker[p] = "redis" THEN lock = NoToken ELSE ~memLocks[p]

\* token = str(uuid.uuid4()): a value no other call draws; the POST's own id
NewToken(p) == p

acquire_lock(p) ==
    IF tracker[p] = "redis"
    THEN /\ lock' = NewToken(p)
         /\ lockTtl' = IDEMPOTENCY_TTL_SEC
         /\ UNCHANGED memLocks
    ELSE /\ memLocks' = [memLocks EXCEPT ![p] = TRUE]
         /\ UNCHANGED <<lock, lockTtl>>

set_status(p, status, result, error) ==
    /\ IF tracker[p] = "redis"
       THEN /\ job' = Record(status, result, error)
            /\ jobTtl' = JOB_TTL_SEC
            /\ UNCHANGED memJobs
       ELSE /\ memJobs' = [memJobs EXCEPT ![p] = Record(status, result, error)]
            /\ UNCHANGED <<job, jobTtl>>
    /\ lastSet' = [lastSet EXCEPT ![p] = status]

\* a set_status call that raised: nothing is written
set_status_raised(p) ==
    /\ UNCHANGED <<job, jobTtl, memJobs>>
    /\ lastSet' = [lastSet EXCEPT ![p] = "RAISED"]

\* the state when the first request arrives: no key, no request; connected
\* tells whether _init_redis_once has already succeeded
JobStartup(connected, files, urls, retries) ==
    /\ redis = connected
    /\ job = NoJob
    /\ jobTtl = 0
    /\ lock = NoToken
    /\ lockTtl = 0
    /\ ticks = 0
    /\ nfiles \in files
    /\ callback_url \in urls
    /\ max_retries \in retries
    /\ pc = [p \in Posts |-> "idle"]
    /\ body = [p \in Posts |-> "none"]
    /\ tracker = [p \in Posts |-> "mem"]
    /\ existing = [p \in Posts |-> NoJob]
    /\ token = [p \in Posts |-> NoToken]
    /\ memJobs = [p \in Posts |-> NoJob]
    /\ memLocks = [p \in Posts |-> FALSE]
    /\ resp = [p \in Posts |-> NoResp]
    /\ wpc = [p \in Posts |-> "none"]
    /\ idx = [p \in Posts |-> 0]
    /\ loc = [p \in Posts |-> InitLoc]
    /\ attempt = [p \in Posts |-> 0]
    /\ delays = [p \in Posts |-> <<>>]
    /\ cbOutcome = [p \in Posts |-> "none"]
    /\ lastSet = [p \in Posts |-> "NONE"]
    /\ downloads = [f \in 1..MaxFiles |-> 0]
    /\ gets = 0
    /\ getResp = NoResp

\* no request is being staged
StagingIdle ==
    /\ file_refs = <<>>
    /\ refno = 0
    /\ used_filenames = {}
    /\ staged_files = <<>>
    /\ disk = <<>>
    /\ stage = "idle"

\* a response of the gateway: body_kind tells the shape of the body, the
\* StdResp envelope {code, message, data}, FastAPI's {detail}, or plain text
Reply(status_code, body_kind, code, message, data) ==
    [status_code |-> status_code, body_kind |-> body_kind, code |-> code,
     message |-> message, data |-> data]
\* the data of an envelope: a JSON value, bare or wrapped as {value: ...} or
\* {raw: ...}; NoData is null
Data(wrap, of) == [wrap |-> wrap, of |-> of]
NoData == Data("none", "null")
NoReply == Reply(0, "none", 0, "", NoData)

\* the outcome of client.request: a response, a timeout or a transport error
Upstream(kind, status_code, content) ==
    [kind |-> kind, status_code |-> status_code, body |-> content]
NoUpstream == Upstream("none", 0, "none")

\* no request is at the gateway
GatewayIdle ==
    /\ gwRequest = <<>>
    /\ gwPc = "idle"
    /\ gwHeaders = <<>>
    /\ gwUpstream = NoUpstream
    /\ gwReply = NoReply
    /\ gwReplyHeaders = <<>>

\* a request slot of the route endpoints: kind is "proxy", "register" or
\* "reload"; key and url are category.action and the url of a RouteEntry;
\* key_ok tells whether X-Api-Key passes; snap is what reload read
Request(kind, key, url, key_ok, position, snap, reply) ==
    [kind |-> kind, key |-> key, url |-> url, key_ok |-> key_ok,
     pc |-> position, snap |-> snap, reply |-> reply]
NoRequest == Request("none", "", "", TRUE, "idle", <<>>, NoReply)
Slots == 1..MaxRequests

\* no route table is followed
RoutesIdle ==
    /\ routes = "None"
    /\ _routes = <<>>
    /\ kvHash = <<>>
    /\ kvUp = TRUE
    /\ boot = "idle"
    /\ rq = [r \in Slots |-> NoRequest]

\* the clients of the model, by remote address
Clients == {"10.0.0.1", "10.0.0.2"}

\* no request has been counted
RateIdle ==
    /\ served = [c \in Clients |-> 0]
    /\ hits = [c \in Clients |-> 0]
    /\ rateReply = [c \in Clients |-> NoReply]

Endpoints == 1..MaxEndpoints

\* no registration is followed
RegisterIdle ==
    /\ endpoints = 0
    /\ regEp = 0
    /\ regAttempt = 0
    /\ regOk = FALSE
    /\ regPc = "idle"
    /\ regPosts = [e \in Endpoints |-> 0]
    /\ regSlept = [e \in Endpoints |-> 0]
    /\ got200 = {}

\* a call of the tracker surface and what it returned
Call(op, arg) == [op |-> op, arg |-> arg]
NoCall == Call("none", "")
Ret(kv, mem) == [kv |-> kv, mem |-> mem]

\* no tracker is called
CompareIdle ==
    /\ cmpPc = "idle"
    /\ cmpCall = NoCall
    /\ cmpRet = Ret("", "")
    /\ cmpCalls = 0

\* a Python value: its type and what it holds
Value(type, value) == [type |-> type, value |-> value]
PyNone == Value("None", "")

ForwardIdle ==
    /\ fwRequest = [method |-> "GET", raw_body |-> "", query_params |-> <<>>]
    /\ fwPc = "idle"
    /\ fwParams = <<>>
    /\ fwBody = PyNone
    /\ fwWire = [content |-> "", query |-> <<>>]

SplitIdle ==
    /\ splitIn = [server_path |-> <<>>, server_file |-> <<>>]
    /\ file_url = <<>>
    /\ splitOut = [raised |-> TRUE, server_path |-> <<>>, server_file |-> <<>>]
    /\ splitPc = "idle"

UploadIdle ==
    /\ upIn = [local_file |-> "none", esb_base_url |-> TRUE]
    /\ upResponse = [url |-> "", status_code |-> 0, text |-> ""]
    /\ upOutcome = "none"
    /\ upJob = NoJob
    /\ upPc = "idle"

EsbIdle ==
    /\ esbReq = [server_path |-> "", server_file |-> "", local_file_path |-> ""]
    /\ esbUrl = <<>>
    /\ esbServer = [kind |-> "none", status_code |-> 0, chunks |-> 0]
    /\ esbReply = [status_code |-> 0, content |-> "none", chunks |-> 0,
                   complete |-> FALSE]
    /\ esbPc = "idle"

InitIdle ==
    /\ routes_lock = 0
    /\ initPc = [t \in 1..MaxTasks |-> "idle"]
    /\ initRet = [t \in 1..MaxTasks |-> "none"]
    /\ threads = 0
    /\ installs = 0

RestIdle == ForwardIdle /\ SplitIdle /\ UploadIdle /\ EsbIdle /\ InitIdle

HubIdle == RoutesIdle /\ RateIdle /\ RegisterIdle /\ CompareIdle /\ RestIdle

Startup(connected, files, urls, retries) ==
    /\ JobStartup(connected, files, urls, retries)
    /\ StagingIdle
    /\ GatewayIdle
    /\ HubIdle

Init == Startup(FALSE, 1..MaxFiles, {"", "url"}, {MaxRetries})

\* ---- startup ---------------------------------------------------------------
\* _init_redis_once, run in the background by lifespan, connects the client
InitRedisOnce ==
    /\ ~redis
    /\ redis' = TRUE
    /\ UNCHANGED <<kvVars, ticks, cfgVars, postVars, memVars, workerVars,
                   lastSet, downloads, getVars>>

\* ---- POST /agents/{name} -----------------------------------------------------
Finish(p, r) ==
    /\ pc' = [pc EXCEPT ![p] = "done"]
    /\ resp' = [resp EXCEPT ![p] = r]

\* the bodies a POST may carry: a JSON object with file refs, something that
\* is not a JSON object (empty, unparsable, an array, a scalar), a JSON object
\* with neither file nor files
Bodies == {"valid", "not_object", "no_files"}

\* a validation that lets every body through
ValidateNothing(b) == 0

\* run: the status of the HTTPException the body is rejected with, 0 when
\* DocOCRReq.model_validate accepts it
Validate(b) ==
    IF b = "not_object" THEN 400 ELSE IF b = "no_files" THEN 422 ELSE 0

\* run_agent up to handler.run's validation of the body
StartPost(p) ==
    /\ pc[p] = "idle"
    /\ tracker' = [tracker EXCEPT ![p] = _get_tracker]
    /\ \E b \in Bodies :
         /\ body' = [body EXCEPT ![p] = b]
         /\ CASE Validate(b) = 400 ->
                  Finish(p, Response(400, "NONE", Null, "invalid_json"))
             [] Validate(b) = 422 ->
                  Finish(p, Response(422, "NONE", Null, "validation"))
             [] OTHER ->
                  /\ pc' = [pc EXCEPT ![p] = "get_job"]
                  /\ UNCHANGED resp
    /\ UNCHANGED <<redis, kvVars, ticks, cfgVars, existing, token, memVars,
                   workerVars, lastSet, downloads, getVars>>

\* run: tracker.get_job and the replay reply
RunGetJob(p) ==
    /\ pc[p] = "get_job"
    /\ \E ok \in KvOutcomes(p) :
         IF ~ok
         THEN /\ Finish(p, Response(500, "NONE", Null, "kv_error"))
              /\ UNCHANGED existing
         ELSE /\ existing' = [existing EXCEPT ![p] = get_job(p)]
              /\ IF existing'[p] # NoJob
                 THEN Finish(p, Response(200, existing'[p].status,
                                         existing'[p].result, existing'[p].error))
                 ELSE /\ pc' = [pc EXCEPT ![p] = "acquire_lock"]
                      /\ UNCHANGED resp
    /\ UNCHANGED <<redis, kvVars, ticks, cfgVars, body, tracker, token, memVars,
                   workerVars, lastSet, downloads, getVars>>

\* run: tracker.acquire_lock and the contention reply
RunAcquireLock(p) ==
    /\ pc[p] = "acquire_lock"
    /\ \E ok \in KvOutcomes(p) :
         IF ~ok
         THEN /\ Finish(p, Response(500, "NONE", Null, "kv_error"))
              /\ UNCHANGED <<lock, lockTtl, memLocks, token>>
         ELSE IF LockFree(p)
              THEN /\ acquire_lock(p)
                   /\ token' = [token EXCEPT ![p] = NewToken(p)]
                   /\ pc' = [pc EXCEPT ![p] = "set_received"]
                   /\ UNCHANGED resp
              ELSE /\ Finish(p, Response(200, "RUNNING", Null, Null))
                   /\ UNCHANGED <<lock, lockTtl, memLocks, token>>
    /\ UNCHANGED <<redis, job, jobTtl, ticks, cfgVars, body, tracker, existing,
                   memJobs, workerVars, lastSet, downloads, getVars>>

\* run: set_status RECEIVED, asyncio.create_task(_process_doc_ocr), 202
RunAccept(p) ==
    /\ pc[p] = "set_received"
    /\ \E ok \in KvOutcomes(p) :
         IF ~ok
         THEN /\ set_status_raised(p)
              /\ Finish(p, Response(500, "NONE", Null, "kv_error"))
              /\ UNCHANGED wpc
         ELSE /\ set_status(p, "RECEIVED", Null, Null)
              /\ wpc' = [wpc EXCEPT ![p] = "start"]
              /\ Finish(p, Response(202, "RECEIVED", Null, Null))
    /\ UNCHANGED <<redis, lock, lockTtl, ticks, cfgVars, body, tracker, existing,
                   token, memLocks, idx, loc, cbVars, downloads, getVars>>

\* ---- the background worker _process_doc_ocr ----------------------------------
SetWorker(p, position) == wpc' = [wpc EXCEPT ![p] = position]
SetLoc(p, status, result, error) ==
    loc' = [loc EXCEPT ![p] = Record(status, result, error)]

\* a worker is active from its spawn until release_lock returned or it died
Active(p) == wpc[p] \notin {"none", "done", "dead"}

\* set_status RUNNING
WorkerStart(p) ==
    /\ wpc[p] = "start"
    /\ \E ok \in KvOutcomes(p) :
         IF ok
         THEN /\ set_status(p, "RUNNING", Null, Null)
              /\ SetWorker(p, "download")
              /\ idx' = [idx EXCEPT ![p] = 1]
              /\ UNCHANGED loc
         ELSE /\ set_status_raised(p)
              /\ SetWorker(p, "except")
              /\ UNCHANGED <<idx, loc>>
    /\ UNCHANGED <<redis, lock, lockTtl, ticks, cfgVars, postVars, memLocks,
                   cbVars, downloads, getVars>>

\* one iteration of the download loop: download_to_staging of file ref idx,
\* and on its failure set_status FAILED "download_failed: ..." and return
WorkerDownload(p) ==
    /\ wpc[p] = "download"
    /\ downloads' = [downloads EXCEPT ![idx[p]] = @ + 1]
    /\ \E downloaded \in BOOLEAN :
         IF downloaded
         THEN /\ IF idx[p] < nfiles
                 THEN /\ idx' = [idx EXCEPT ![p] = @ + 1]
                      /\ UNCHANGED wpc
                 ELSE /\ SetWorker(p, "adapter")
                      /\ UNCHANGED idx
              /\ UNCHANGED <<loc, job, jobTtl, memJobs, lastSet>>
         ELSE /\ SetLoc(p, "FAILED", Null, "download_failed")
              /\ UNCHANGED idx
              /\ \E ok \in KvOutcomes(p) :
                   IF ok
                   THEN /\ set_status(p, "FAILED", Null, "download_failed")
                        /\ SetWorker(p, "callback")
                   ELSE /\ set_status_raised(p)
                        /\ SetWorker(p, "except")
    /\ UNCHANGED <<redis, lock, lockTtl, ticks, cfgVars, postVars, memLocks,
                   cbVars, getVars>>

\* the adapter call and the write that follows it: UPLOADING with the result
\* envelope, or FAILED with the adapter's error; the call itself may raise
WorkerAdapter(p) ==
    /\ wpc[p] = "adapter"
    /\ \E agent_res \in {"ok", "not_ok", "raise"} : \E ok \in KvOutcomes(p) :
         CASE agent_res = "raise" ->
                /\ SetWorker(p, "except")
                /\ UNCHANGED <<loc, job, jobTtl, memJobs, lastSet>>
           [] agent_res = "not_ok" ->
                /\ SetLoc(p, "FAILED", Null, "agent_error")
                /\ IF ok
                   THEN /\ set_status(p, "FAILED", Null, "agent_error")
                        /\ SetWorker(p, "callback")
                   ELSE /\ set_status_raised(p)
                        /\ SetWorker(p, "except")
           [] OTHER ->
                /\ SetLoc(p, "FAILED", "staged_agent", Null)
                /\ IF ok
                   THEN /\ set_status(p, "UPLOADING", "staged_agent", Null)
                        /\ SetWorker(p, "upload")
                   ELSE /\ set_status_raised(p)
                        /\ SetWorker(p, "except")
    /\ UNCHANGED <<redis, lock, lockTtl, ticks, cfgVars, postVars, memLocks,
                   idx, cbVars, downloads, getVars>>

\* writing the result file (may raise), upload_json_via_esb and the write that
\* follows it: SUCCEEDED with esb_upload added, or FAILED "upload_failed: ..."
WorkerUpload(p) ==
    /\ wpc[p] = "upload"
    /\ \E uploaded \in {"ok", "upload_failed", "raise"} :
       \E ok \in KvOutcomes(p) :
         CASE uploaded = "raise" ->
                /\ SetWorker(p, "except")
                /\ UNCHANGED <<loc, job, jobTtl, memJobs, lastSet>>
           [] uploaded = "upload_failed" ->
                /\ SetLoc(p, "FAILED", loc[p].result, "upload_failed")
                /\ IF ok
                   THEN /\ set_status(p, "FAILED", Null, "upload_failed")
                        /\ SetWorker(p, "callback")
                   ELSE /\ set_status_raised(p)
                        /\ SetWorker(p, "except")
           [] OTHER ->
                IF ok
                THEN /\ set_status(p, "SUCCEEDED", "staged_agent_esb", Null)
                     /\ SetLoc(p, "SUCCEEDED", "staged_agent_esb", Null)
                     /\ SetWorker(p, "callback")
                ELSE /\ set_status_raised(p)
                     /\ SetLoc(p, "FAILED", "staged_agent_esb", Null)
                     /\ SetWorker(p, "except")
    /\ UNCHANGED <<redis, lock, lockTtl, ticks, cfgVars, postVars, memLocks,
                   idx, cbVars, downloads, getVars>>

\* except Exception: error = str(exc), set_status FAILED; when this write
\* raises too the exception leaves the handler, and finally still runs
WorkerExcept(p) ==
    /\ wpc[p] = "except"
    /\ SetLoc(p, "FAILED", loc[p].result, "exception")
    /\ \E ok \in KvOutcomes(p) :
         IF ok
         THEN set_status(p, "FAILED", Null, "exception")
         ELSE set_status_raised(p)
    /\ SetWorker(p, "callback")
    /\ UNCHANGED <<redis, lock, lockTtl, ticks, cfgVars, postVars, memLocks,
                   idx, cbVars, downloads, getVars>>

\* ---- _send_callback ------------------------------------------------------------
\* the exponent one too high
CallbackDelayFromTwo(k) == DOC_OCR_CALLBACK_BASE_DELAY_SEC * Pow2(k)

\* delay = base_delay * (2 ** (attempt - 1))
CallbackDelay(k) == DOC_OCR_CALLBACK_BASE_DELAY_SEC * Pow2(k - 1)

\* the sleep follows a failed attempt only when another attempt is left
SleepsAfter(k) == k < max_retries

\* range(1, max_retries + 1)
Attempts == 1..max_retries

\* a callback that records its failure in the job record
CallbackMarksRecord(p) ==
    /\ set_status(p, "FAILED", Null, "callback_failed")
    /\ UNCHANGED <<lock, lockTtl, memLocks>>

\* _send_callback is handed no tracker and makes no tracker call
CallbackLeavesRecord(p) == UNCHANGED <<kvVars, memVars, lastSet>>

\* the skip for lack of a URL, or one iteration of the retry loop: the POST,
\* its outcome and the sleep before the next attempt
SendCallback(p) ==
    /\ wpc[p] = "callback"
    /\ IF callback_url = ""
       THEN /\ cbOutcome' = [cbOutcome EXCEPT ![p] = "skip"]
            /\ SetWorker(p, "release_lock")
            /\ UNCHANGED <<attempt, delays>>
       ELSE LET k == attempt[p] + 1 IN
            IF k \notin Attempts
            THEN /\ cbOutcome' = [cbOutcome EXCEPT ![p] = "giveup"]
                 /\ SetWorker(p, "release_lock")
                 /\ UNCHANGED <<attempt, delays>>
            ELSE /\ attempt' = [attempt EXCEPT ![p] = k]
                 /\ \E answered2xx \in BOOLEAN :
                      IF answered2xx
                      THEN /\ cbOutcome' = [cbOutcome EXCEPT ![p] = "ok"]
                           /\ SetWorker(p, "release_lock")
                           /\ UNCHANGED delays
                      ELSE /\ delays' = [delays EXCEPT ![p] =
                                IF SleepsAfter(k)
                                THEN Append(@, CallbackDelay(k)) ELSE @]
                           /\ UNCHANGED <<cbOutcome, wpc>>
    /\ CallbackLeavesRecord(p)
    /\ UNCHANGED <<redis, ticks, cfgVars, postVars, idx, loc, downloads, getVars>>

\* ---- release_lock -----------------------------------------------------------------
\* the worker's task is over (position "done") or killed ("dead"): its frame,
\* with the locals of _process_doc_ocr and _send_callback, is gone
TaskEnds(p, position) ==
    /\ SetWorker(p, position)
    /\ idx' = [idx EXCEPT ![p] = 0]
    /\ loc' = [loc EXCEPT ![p] = InitLoc]
    /\ attempt' = [attempt EXCEPT ![p] = 0]
    /\ delays' = [delays EXCEPT ![p] = <<>>]
    /\ cbOutcome' = [cbOutcome EXCEPT ![p] = "none"]
    /\ lastSet' = [lastSet EXCEPT ![p] = "NONE"]

\* JobTracker.release_lock: the comparison cur == token
OwnsLock(p, cur) == cur = token[p]

\* JobTracker.release_lock: cur = r.get(lock_key) and the comparison with the
\* token; an exception is swallowed.
\* InMemoryJobTracker.release_lock: discard the key.
ReleaseLockGet(p) ==
    /\ wpc[p] = "release_lock"
    /\ IF tracker[p] = "redis"
       THEN /\ \E ok \in KvOutcomes(p) :
                 IF ok /\ OwnsLock(p, lock)
                 THEN /\ SetWorker(p, "release_delete")
                      /\ UNCHANGED <<idx, loc, cbVars, lastSet>>
                 ELSE TaskEnds(p, "done")
            /\ UNCHANGED memLocks
       ELSE /\ memLocks' = [memLocks EXCEPT ![p] = FALSE]
            /\ TaskEnds(p, "done")
    /\ UNCHANGED <<redis, kvVars, ticks, cfgVars, postVars, memJobs,
                   downloads, getVars>>

\* JobTracker.release_lock: r.delete(lock_key)
ReleaseLockDelete(p) ==
    /\ wpc[p] = "release_delete"
    /\ \E ok \in KvOutcomes(p) :
         IF ok
         THEN /\ lock' = NoToken
              /\ lockTtl' = 0
         ELSE UNCHANGED <<lock, lockTtl>>
    /\ TaskEnds(p, "done")
    /\ UNCHANGED <<redis, job, jobTtl, ticks, cfgVars, postVars, memVars,
                   downloads, getVars>>

\* the process running the worker dies
WorkerDie(p) ==
    /\ Active(p)
    /\ TaskEnds(p, "dead")
    /\ UNCHANGED <<redis, kvVars, ticks, cfgVars, postVars, memVars,
                   downloads, getVars>>

\* ---- the KV store's clock ---------------------------------------------------------
\* d seconds pass: a key whose TTL has run out is gone
Tick(d) ==
    /\ ticks < MaxTicks
    /\ lock # NoToken \/ job # NoJob
    /\ ticks' = ticks + 1
    /\ lockTtl' = Max(lockTtl - d, 0)
    /\ lock' = IF lockTtl' = 0 THEN NoToken ELSE lock
    /\ jobTtl' = Max(jobTtl - d, 0)
    /\ job' = IF jobTtl' = 0 THEN NoJob ELSE job
    /\ UNCHANGED <<redis, cfgVars, postVars, memVars, workerVars, lastSet,
                   downloads, getVars>>

\* ---- GET /agents/{name}?request_id=R ---------------------------------------------
\* run_agent, method GET: a tracker from _get_tracker (a new, empty
\* InMemoryJobTracker when app.state.redis is unset), get_job, the reply
GetStatus ==
    /\ gets < MaxGets
    /\ gets' = gets + 1
    /\ IF _get_tracker = "redis"
       THEN \E ok \in BOOLEAN :
              getResp' = IF ~ok THEN Response(500, "NONE", Null, "kv_error")
                         ELSE IF job # NoJob
                         THEN Response(200, job.status, job.result, job.error)
                         ELSE Response(200, "UNKNOWN", Null, Null)
       ELSE getResp' = Response(200, "UNKNOWN", Null, Null)
    /\ UNCHANGED <<redis, kvVars, ticks, cfgVars, postVars, memVars,
                   workerVars, lastSet, downloads>>

Post(p) ==
    StartPost(p) \/ RunGetJob(p) \/ RunAcquireLock(p) \/ RunAccept(p)

Worker(p) ==
    \/ WorkerStart(p) \/ WorkerDownload(p) \/ WorkerAdapter(p)
    \/ WorkerUpload(p) \/ WorkerExcept(p) \/ SendCallback(p)
    \/ ReleaseLockGet(p) \/ ReleaseLockDelete(p)

\* ---- staging: filenames and downloads of one request ---------------------------
\* A local filename is a stem, given as a base and the numbers appended to it
\* with "-", and a suffix: "a.pdf" is Name("a", <<>>, ".pdf"), "a-3.pdf" is
\* Name("a", <<3>>, ".pdf").  NoName is the absent or empty string.
Name(base, tags, suffix) == [base |-> base, tags |-> tags, suffix |-> suffix]
NoName == Name("", <<>>, "")

\* f"input-{idx + 1}.bin"
InputBin(k) == Name("input", <<k>>, ".bin")

\* f"{request_id}-result.json"
upload_filename == Name("R-result", <<>>, ".json")

\* the bytes json.dumps(agent_res.data) gives
ResultBytes == <<1, 1, 1>>

\* the filenames and URL basenames a file ref of the model may carry
GivenNames == {NoName, Name("a", <<>>, ".pdf"), Name("a", <<MaxRefs>>, ".pdf"),
               upload_filename}
UrlNames == {NoName, Name("a", <<>>, ".pdf")}
FileRefs == [filename : GivenNames, urlname : UrlNames]

RECURSIVE SeqsUpTo(_, _)
SeqsUpTo(S, n) ==
    IF n = 0 THEN {<<>>}
    ELSE LET shorter == SeqsUpTo(S, n - 1)
         IN  shorter \cup {Append(q, x) : q \in shorter, x \in S}

\* the chunks resp.aiter_bytes may deliver, an empty one among them
Chunks == {<<>>, <<0>>, <<1>>}
ChunkStreams == SeqsUpTo(Chunks, MaxChunks)

\* hashlib.sha256 over the bytes fed to it, in order
Sha256(bytes) == <<"sha256", bytes>>

\* stem = Path(filename).stem or "input"; filename = f"{stem}-{idx + 1}{suffix}"
Rename(filename, k) ==
    LET stem == IF filename.base = "" THEN "input" ELSE filename.base
    IN  Name(stem, Append(filename.tags, k), filename.suffix)

\* the local filename of file ref number k (idx + 1): the explicit filename,
\* else the URL's basename, else input-<k>.bin; renamed when already used
DeriveFilename(ref, k, used) ==
    LET given == IF ref.filename # NoName THEN ref.filename
                 ELSE IF ref.urlname # NoName THEN ref.urlname
                 ELSE InputBin(k)
    IN  IF given \in used THEN Rename(given, k) ELSE given

\* download_to_staging's loop over the chunks: an empty chunk is skipped,
\* every other one is written, counted and hashed
RECURSIVE WriteChunks(_, _)
WriteChunks(acc, chunks) ==
    IF chunks = <<>> THEN acc
    ELSE LET chunk == Head(chunks)
         IN  IF chunk = <<>> THEN WriteChunks(acc, Tail(chunks))
             ELSE WriteChunks([written |-> acc.written \o chunk,
                               size |-> acc.size + Len(chunk),
                               hashed |-> acc.hashed \o chunk],
                              Tail(chunks))

\* download_to_staging: dst is opened "wb" (truncated), the chunks are
\* streamed into it; the StagedFile it returns and the file it leaves
download_to_staging(filename, chunks) ==
    LET done == WriteChunks([written |-> <<>>, size |-> 0, hashed |-> <<>>], chunks)
    IN  [staged |-> [local_path |-> filename, size_bytes |-> done.size,
                     sha256 |-> Sha256(done.hashed)],
         file |-> done.written]

\* the file at a path is replaced
WriteFile(path, bytes) == disk' = (path :> bytes) @@ disk

\* the job lifecycle stands still while the staging directory is followed
jobVars == <<redis, kvVars, ticks, nfiles, callback_url, max_retries, postVars,
             memVars, workerVars, lastSet, downloads, getVars>>
stagingFrame == <<jobVars, gatewayVars, hubVars>>

\* one iteration of the download loop of _process_doc_ocr
StageDownload ==
    /\ stage = "download"
    /\ LET filename == DeriveFilename(file_refs[refno], refno, used_filenames)
       IN  /\ used_filenames' = used_filenames \cup {filename}
           /\ \/ /\ stage' = "failed"
                 /\ UNCHANGED <<staged_files, disk, refno>>
              \/ \E chunks \in ChunkStreams :
                   LET got == download_to_staging(filename, chunks)
                   IN  /\ WriteFile(filename, got.file)
                       /\ staged_files' = Append(staged_files, got.staged)
                       /\ IF refno < Len(file_refs)
                          THEN refno' = refno + 1 /\ UNCHANGED stage
                          ELSE stage' = "adapter" /\ UNCHANGED refno
    /\ UNCHANGED <<file_refs, stagingFrame>>

\* the adapter call: ok, or not ok / raised
StageAdapter ==
    /\ stage = "adapter"
    /\ stage' \in {"write_result", "failed"}
    /\ UNCHANGED <<file_refs, refno, used_filenames, staged_files, disk, stagingFrame>>

\* upload_path.write_text(json.dumps(agent_res.data)), in the directory of
\* the staged files
StageWriteResult ==
    /\ stage = "write_result"
    /\ WriteFile(upload_filename, ResultBytes)
    /\ stage' = "upload"
    /\ UNCHANGED <<file_refs, refno, used_filenames, staged_files, stagingFrame>>

\* upload_json_via_esb and the SUCCEEDED or FAILED that follows
StageUpload ==
    /\ stage = "upload"
    /\ stage' \in {"succeeded", "failed"}
    /\ UNCHANGED <<file_refs, refno, used_filenames, staged_files, disk, stagingFrame>>

\* ---- gateway: the proxy endpoint /<API_PREFIX>/{category}/{action} ----------------
HOP_BY_HOP == {"host", "content-length", "transfer-encoding", "connection",
               "expect", "accept-encoding"}

\* the header lines a client of the model may send; the server hands their
\* names over in lower case
HeaderNames == {"host", "accept-encoding", "x-tag", "x-trace-id"}
HeaderValues == {"1", "2"}
HeaderLines == [name : HeaderNames, value : HeaderValues]

\* a request and its setting: the header lines, whether the X-Api-Key passes
\* (GW_API_KEY unset or equal), whether app.state.routes is set, whether the
\* route table resolves category.action
Requests ==
    [headers : SeqsUpTo(HeaderLines, MaxHeaders), key_ok : BOOLEAN,
     routes_ready : BOOLEAN, route_known : BOOLEAN]

\* dict(request.headers): one entry per name, a repeated name keeps the
\* value of its first line
HeadersDict(lines) ==
    [n \in {lines[i].name : i \in DOMAIN lines} |->
        lines[CHOOSE i \in DOMAIN lines :
                 /\ lines[i].name = n
                 /\ \A j \in DOMAIN lines : j < i => lines[j].name # n].value]

\* for h in HOP_BY_HOP: headers.pop(h, None)
Pop(headers, names) == [n \in DOMAIN headers \ names |-> headers[n]]

\* headers.setdefault(key, value)
SetDefault(headers, key, value) ==
    IF key \in DOMAIN headers THEN headers ELSE (key :> value) @@ headers

\* the headers of the forwarded request; request.state carries no trace_id
\* and no request_id, so the two defaults are ""
ForwardHeaders(lines) ==
    SetDefault(SetDefault(Pop(HeadersDict(lines), HOP_BY_HOP), "X-Trace-Id", ""),
               "X-Request-Id", "")

\* the bodies an upstream of the model may answer with: a JSON object, a JSON
\* array, a JSON scalar, text that is no JSON, and JSON as Python writes and
\* reads it with a NaN or Infinity in it
UpstreamBodies == {"object", "array", "scalar", "text", "non_finite"}
UpstreamStatuses == {200, 201, 304, 399, 400, 404, 500}
UpstreamOutcomes ==
    {Upstream("timeout", 0, "none"), Upstream("transport_error", 0, "none")}
    \cup {Upstream("response", st, b) : st \in UpstreamStatuses, b \in UpstreamBodies}

\* data = resp.json(), {"raw": resp.text} when that raises, {"value": data}
\* when it is neither dict nor list
ParseBody(content) ==
    CASE content \in {"object", "array"} -> Data("none", content)
      [] content = "text" -> Data("raw", content)
      [] OTHER -> Data("value", content)

\* JSONResponse renders with allow_nan=False: a NaN or Infinity raises
Renders(data) == data.of # "non_finite"

\* the reply to a forwarded request
ProxyResponse(upstream) ==
    CASE upstream.kind = "timeout" ->
           Reply(504, "envelope", 504, "upstream_timeout", NoData)
      [] upstream.kind = "transport_error" ->
           Reply(502, "envelope", 502, "bad_gateway", NoData)
      [] OTHER ->
           LET data == ParseBody(upstream.body)
               ok == upstream.status_code < 400
           IN  IF Renders(data)
               THEN Reply(IF ok THEN 200 ELSE 502, "envelope",
                          IF ok THEN 0 ELSE upstream.status_code,
                          IF ok THEN "ok" ELSE "upstream_error", data)
               ELSE Reply(500, "text", 0, "Internal Server Error", NoData)

\* the reply an HTTPException makes: FastAPI's {"detail": ...}
HttpError(status_code, detail) == Reply(status_code, "detail", 0, detail, NoData)

\* str(uuid.uuid4()): a value no client sends
Uuid == "uuid"

\* TraceLogMiddleware.dispatch:
\* trace_id = request.headers.get("X-Trace-Id", str(uuid.uuid4()))
TraceId(lines) ==
    IF "x-trace-id" \in DOMAIN HeadersDict(lines)
    THEN HeadersDict(lines)["x-trace-id"] ELSE Uuid

\* the headers TraceLogMiddleware leaves on the answer of call_next: on a
\* response, response.headers["X-Trace-Id"] = trace_id; an exception is
\* logged and raised again, and the server's own 500 carries none
TraceHeaders(lines, raised) ==
    IF raised THEN <<>> ELSE ("X-Trace-Id" :> TraceId(lines))

\* JSONResponse(...) raises inside the proxy function
RenderRaises(upstream) ==
    upstream.kind = "response" /\ ~Renders(ParseBody(upstream.body))

GatewayReplies(reply) ==
    /\ gwReply' = reply
    /\ gwPc' = "done"

\* ApiKeyMiddleware, then proxy up to its own key check.  The HTTPException
\* the middleware raises is outside the router's exception handling: the
\* caller gets the 401 or the server's 500, neither as an envelope.
\* ApiKeyMiddleware was added last and so runs outside TraceLogMiddleware
ProxyAdmit ==
    /\ gwPc = "arrived"
    /\ IF ~gwRequest.key_ok
       THEN \/ GatewayReplies(HttpError(401, "unauthorized"))
            \/ GatewayReplies(Reply(500, "text", 0, "Internal Server Error", NoData))
       ELSE IF ~gwRequest.routes_ready
       THEN GatewayReplies(HttpError(503, "routes_not_ready"))
       ELSE IF ~gwRequest.route_known
       THEN GatewayReplies(HttpError(404, "component_not_found"))
       ELSE gwPc' = "forward" /\ UNCHANGED gwReply
    /\ gwReplyHeaders' =
         IF gwPc' = "forward" THEN gwReplyHeaders
         ELSE TraceHeaders(gwRequest.headers, ~gwRequest.key_ok)
    /\ UNCHANGED <<gwRequest, gwHeaders, gwUpstream, jobVars, stagingVars, hubVars>>

\* the headers are assembled and client.request is called
ProxyForward ==
    /\ gwPc = "forward"
    /\ gwHeaders' = ForwardHeaders(gwRequest.headers)
    /\ gwPc' = "sent"
    /\ UNCHANGED <<gwRequest, gwUpstream, gwReply, gwReplyHeaders, jobVars,
                   stagingVars, hubVars>>

\* client.request returns or raises, and the reply is made of it
ProxyReply ==
    /\ gwPc = "sent"
    /\ \E upstream \in UpstreamOutcomes :
         /\ gwUpstream' = upstream
         /\ GatewayReplies(ProxyResponse(upstream))
         /\ gwReplyHeaders' = TraceHeaders(gwRequest.headers, RenderRaises(upstream))
    /\ UNCHANGED <<gwRequest, gwHeaders, jobVars, stagingVars, hubVars>>

\* ---- the gateway's route table (src/gateway/app/route_table.py, main.py) -------
RouteKeys == {"tools.add", "agents.ocr"}
RouteUrls == {"http://a", "http://b"}

\* self._routes[key] = value
Upsert(table, key, url) ==
    [k \in DOMAIN table \cup {key} |-> IF k = key THEN url ELSE table[k]]

\* RouteTable.resolve: self._routes.get("<category>.<action>")
resolve(key) == IF key \in DOMAIN _routes THEN _routes[key] ELSE Null

\* a check of app.state.routes that lets every request through
NotReadyNever == FALSE

\* if not app.state.routes
NotReady == routes = "None"

\* the answer of POST /register: {"code": 0, "msg": "ok"}
RegisterOk == Reply(200, "msg", 0, "ok", NoData)
\* the answer of GET /routes/reload
Reloaded == Reply(200, "envelope", 0, "routes reloaded", NoData)
\* the server's answer to an exception no handler takes
ServerError == Reply(500, "text", 0, "Internal Server Error", NoData)

Answer(r, reply) ==
    rq' = [rq EXCEPT ![r].pc = "done", ![r].reply = reply]
Goto(r, position) == rq' = [rq EXCEPT ![r].pc = position]

\* _init_routes_once: builds the table when there is none.  RouteTable()
\* reads the hash once; an unreachable store either makes the build run
\* into the timeout (routes stays None) or makes reload() log the
\* exception and start from an empty table
InitRoutesOnce ==
    IF routes # "None" THEN UNCHANGED <<routes, _routes>>
    ELSE IF kvUp
    THEN routes' = "RouteTable" /\ _routes' = kvHash
    ELSE \/ UNCHANGED <<routes, _routes>>
         \/ routes' = "RouteTable" /\ _routes' = <<>>

routesFrame == <<jobVars, stagingVars, gatewayVars, rateVars, registerVars,
                 compareVars, restVars>>

\* _bootstrap_routes: the task started at start-up
BootstrapRoutes ==
    /\ boot = "pending"
    /\ InitRoutesOnce
    /\ boot' = "done"
    /\ UNCHANGED <<kvHash, kvUp, rq, routesFrame>>

\* the store becomes unreachable, or reachable again
KvFlip ==
    /\ boot # "idle"
    /\ kvUp' = ~kvUp
    /\ UNCHANGED <<routes, _routes, kvHash, boot, rq, routesFrame>>

\* a request arrives and passes ApiKeyMiddleware, or is turned away by it
\* (the HTTPException raised there is outside the router's exception
\* handling: the caller gets the 401 or the server's 500)
RouteArrive(r) ==
    /\ boot # "idle"
    /\ rq[r].kind = "none"
    /\ \A q \in Slots : q < r => rq[q].kind # "none"
    /\ \E kind \in {"proxy", "register", "reload"}, key \in RouteKeys,
          url \in RouteUrls, key_ok \in BOOLEAN :
         /\ kind = "reload" => (key = "tools.add" /\ url = "http://a")
         /\ kind = "proxy" => url = "http://a"
         /\ IF key_ok
            THEN rq' = [rq EXCEPT ![r] =
                          Request(kind, key, url, TRUE, "handler", <<>>, NoReply)]
            ELSE \E reply \in {HttpError(401, "unauthorized"), ServerError} :
                   rq' = [rq EXCEPT ![r] =
                            Request(kind, key, url, FALSE, "done", <<>>, reply)]
    /\ UNCHANGED <<routes, _routes, kvHash, kvUp, boot, routesFrame>>

\* proxy up to the point where the request is forwarded to the target
ProxyResolve(r) ==
    /\ rq[r].kind = "proxy" /\ rq[r].pc = "handler"
    /\ IF NotReady
       THEN Answer(r, HttpError(503, "routes_not_ready"))
       ELSE IF resolve(rq[r].key) = Null
       THEN Answer(r, HttpError(404, "component_not_found"))
       ELSE Goto(r, "forward")
    /\ UNCHANGED <<routes, _routes, kvHash, kvUp, boot, routesFrame>>

\* register up to RouteTable.add's write of the in-memory table
RegisterAdd(r) ==
    /\ rq[r].kind = "register" /\ rq[r].pc = "handler"
    /\ IF NotReady
       THEN /\ Answer(r, HttpError(503, "routes_not_ready"))
            /\ UNCHANGED _routes
       ELSE /\ _routes' = Upsert(_routes, rq[r].key, rq[r].url)
            /\ Goto(r, "hset")
    /\ UNCHANGED <<routes, kvHash, kvUp, boot, routesFrame>>

\* RouteTable.add's self.r.hset, and the answer of register
RegisterHset(r) ==
    /\ rq[r].kind = "register" /\ rq[r].pc = "hset"
    /\ IF kvUp
       THEN /\ kvHash' = Upsert(kvHash, rq[r].key, rq[r].url)
            /\ Answer(r, RegisterOk)
       ELSE /\ Answer(r, ServerError)
            /\ UNCHANGED kvHash
    /\ UNCHANGED <<routes, _routes, kvUp, boot, routesFrame>>

\* reload_routes up to its check of the table
ReloadInit(r) ==
    /\ rq[r].kind = "reload" /\ rq[r].pc = "handler"
    /\ InitRoutesOnce
    /\ IF routes' = "None"
       THEN Answer(r, HttpError(503, "routes_not_ready"))
       ELSE Goto(r, "hgetall")
    /\ UNCHANGED <<kvHash, kvUp, boot, routesFrame>>

\* RouteTable.reload's self.r.hgetall: its value, or the except block with
\* {} when it raises
ReloadHgetall(r) ==
    /\ rq[r].kind = "reload" /\ rq[r].pc = "hgetall"
    /\ rq' = [rq EXCEPT ![r].pc = IF kvUp THEN "assign" ELSE "except",
                        ![r].snap = IF kvUp THEN kvHash ELSE <<>>]
    /\ UNCHANGED <<routes, _routes, kvHash, kvUp, boot, routesFrame>>

\* RouteTable.reload's assignment of self._routes, and the answer
ReloadAssign(r) ==
    /\ rq[r].kind = "reload" /\ rq[r].pc \in {"assign", "except"}
    /\ _routes' = rq[r].snap
    /\ Answer(r, Reloaded)
    /\ UNCHANGED <<routes, kvHash, kvUp, boot, routesFrame>>

\* ---- the rate limit of the proxy endpoint (src/gateway/app/main.py) ------------
\* the decorators of proxy in the order they are applied, the one next to
\* the def first: app.api_route(...), then limiter.limit("60/minute")
Decorators == <<"api_route", "limit">>

\* app.api_route registers the function it is handed and hands it back;
\* limiter.limit hands back a wrapper that counts.  The route runs the
\* wrapper only if limit was applied before api_route
RouteLimited ==
    \E i, j \in DOMAIN Decorators :
        i < j /\ Decorators[i] = "limit" /\ Decorators[j] = "api_route"

\* rate_limit_exceeded_handler
TooManyRequests == Reply(429, "text", 0, "Too many requests", NoData)
\* the answer of a request that went through proxy, whatever it is
Proxied == Reply(200, "envelope", 0, "ok", NoData)

rateFrame == <<jobVars, stagingVars, gatewayVars, routesVars, registerVars,
               compareVars, restVars>>

\* a request of client c to the proxy endpoint, up to the 61st of a window
RateRequest(c) ==
    /\ served[c] <= RATE_LIMIT
    /\ served' = [served EXCEPT ![c] = @ + 1]
    /\ IF RouteLimited /\ hits[c] >= RATE_LIMIT
       THEN /\ rateReply' = [rateReply EXCEPT ![c] = TooManyRequests]
            /\ UNCHANGED hits
       ELSE /\ rateReply' = [rateReply EXCEPT ![c] = Proxied]
            /\ hits' = IF RouteLimited THEN [hits EXCEPT ![c] = @ + 1] ELSE hits
    /\ UNCHANGED rateFrame

\* the 60-second window of client c ends
WindowExpires(c) ==
    /\ served[c] > 0
    /\ served' = [served EXCEPT ![c] = 0]
    /\ hits' = [hits EXCEPT ![c] = 0]
    /\ rateReply' = [rateReply EXCEPT ![c] = NoReply]
    /\ UNCHANGED rateFrame

\* ---- registration at the gateway (src/orchestrator/app/app.py) -------------------
\* what becomes of client.post: a status code, or 0 for an exception
\* (connection refused, timeout after 5 s)
PostOutcomes == {200, 401, 500, 503, 0}

\* a loop that never takes an answer for a success
RegisteredNever(status_code) == FALSE

\* if resp.status_code == 200
Registered(status_code) == status_code = 200

registerFrame == <<jobVars, stagingVars, gatewayVars, routesVars, rateVars,
                   compareVars, restVars>>

\* for ep in endpoints: the next endpoint, ok = False and attempt = 1; after
\* the last one register_to_gateway returns and lifespan goes on to yield
RegisterNextEndpoint ==
    /\ regPc = "for"
    /\ IF regEp < endpoints
       THEN /\ regEp' = regEp + 1
            /\ regOk' = FALSE
            /\ regAttempt' = 1
            /\ regPc' = "post"
       ELSE /\ regPc' = "started"
            /\ UNCHANGED <<regEp, regOk, regAttempt>>
    /\ UNCHANGED <<endpoints, regPosts, regSlept, got200, registerFrame>>

\* client.post(GATEWAY_URL/register): break on 200, otherwise on to the sleep
RegisterPost ==
    /\ regPc = "post"
    /\ regPosts' = [regPosts EXCEPT ![regEp] = @ + 1]
    /\ \E status_code \in PostOutcomes :
         /\ got200' = IF status_code = 200 THEN got200 \cup {regEp} ELSE got200
         /\ IF status_code # 0 /\ Registered(status_code)
            THEN regOk' = TRUE /\ regPc' = "if_not_ok"
            ELSE regPc' = "sleep" /\ UNCHANGED regOk
    /\ UNCHANGED <<endpoints, regEp, regAttempt, regSlept, registerFrame>>

\* asyncio.sleep(REGISTER_RETRY_SECONDS) and the next turn of the loop
RegisterSleep ==
    /\ regPc = "sleep"
    /\ regSlept' = [regSlept EXCEPT ![regEp] = @ + REGISTER_RETRY_SECONDS]
    /\ IF regAttempt < REGISTER_MAX_ATTEMPTS
       THEN regAttempt' = regAttempt + 1 /\ regPc' = "post"
       ELSE regPc' = "if_not_ok" /\ UNCHANGED regAttempt
    /\ UNCHANGED <<endpoints, regEp, regOk, regPosts, got200, registerFrame>>

\* if not ok: the give-up is logged, and the for loop goes on
RegisterGiveUp ==
    /\ regPc = "if_not_ok"
    /\ regPc' = "for"
    /\ UNCHANGED <<endpoints, regEp, regOk, regAttempt, regPosts, regSlept,
                   got200, registerFrame>>

\* ---- JobTracker and InMemoryJobTracker side by side (services/job_tracker.py) ----
\* tracker 1 is a JobTracker over the KV store, tracker 2 an
\* InMemoryJobTracker; every call is made on the one, then on the other
KvTracker == 1
MemTracker == 2

\* a token that no acquire_lock of the model returned
OtherToken == MaxPosts + 1

\* request_id or str(uuid.uuid4())
ensure_request_id(request_id) == IF request_id # "" THEN request_id ELSE Uuid

\* release_lock(request_id, t): compare and delete on the KV store (no call
\* raises here), discard in memory
release_lock(p, t) ==
    IF tracker[p] = "redis"
    THEN /\ lock' = IF lock = t THEN NoToken ELSE lock
         /\ lockTtl' = IF lock = t THEN 0 ELSE lockTtl
         /\ UNCHANGED memLocks
    ELSE /\ memLocks' = [memLocks EXCEPT ![p] = FALSE]
         /\ UNCHANGED <<lock, lockTtl>>

\* the calls of the model: release_lock is handed the token the tracker's
\* own acquire_lock returned, or another one
Calls ==
    {Call("ensure_request_id", id) : id \in {"", "r1"}}
    \cup {Call("get_job", ""), Call("acquire_lock", "")}
    \cup {Call("release_lock", t) : t \in {"own", "other"}}
    \cup {Call("set_status", st) : st \in {"RUNNING", "SUCCEEDED"}}

\* what the call returns on tracker p: the id, the record (NoJob for None),
\* "token" for a token and Null for None, the payload written
Returns(p, call) ==
    CASE call.op = "ensure_request_id" -> ensure_request_id(call.arg)
      [] call.op = "get_job" -> get_job(p)
      [] call.op = "acquire_lock" -> IF LockFree(p) THEN "token" ELSE Null
      [] call.op = "release_lock" -> Null
      [] OTHER -> Record(call.arg, Null, Null)

\* what the call does to tracker p
Made(p, call) ==
    CASE call.op \in {"ensure_request_id", "get_job"} ->
           UNCHANGED <<kvVars, memVars, token, lastSet>>
      [] call.op = "acquire_lock" ->
           IF LockFree(p)
           THEN /\ acquire_lock(p)
                /\ token' = [token EXCEPT ![p] = NewToken(p)]
                /\ UNCHANGED <<job, jobTtl, memJobs, lastSet>>
           ELSE UNCHANGED <<kvVars, memVars, token, lastSet>>
      [] call.op = "release_lock" ->
           /\ release_lock(p, IF call.arg = "own" THEN token[p] ELSE OtherToken)
           /\ UNCHANGED <<job, jobTtl, memJobs, token, lastSet>>
      [] OTHER ->
           /\ set_status(p, call.arg, Null, Null)
           /\ UNCHANGED <<lock, lockTtl, memLocks, token>>

compareFrame == <<redis, ticks, nfiles, callback_url, max_retries, pc, body,
                  existing, resp, workerVars, downloads, getVars, stagingVars,
                  gatewayVars, routesVars, rateVars, registerVars, restVars>>

\* JobTracker(redis_client) and InMemoryJobTracker() are constructed
CompareCreate ==
    /\ cmpPc = "create"
    /\ tracker' = [p \in Posts |-> IF p = KvTracker THEN "redis" ELSE "mem"]
    /\ cmpPc' = "kv"
    /\ UNCHANGED <<kvVars, memVars, token, lastSet, cmpCall, cmpRet, cmpCalls,
                   compareFrame>>

\* the next call, made on the JobTracker
CompareKv ==
    /\ cmpPc = "kv"
    /\ cmpCalls < MaxCalls
    /\ \E call \in Calls :
         /\ call = Call("release_lock", "own") => token[KvTracker] # NoToken
         /\ cmpCall' = call
         /\ cmpRet' = Ret(Returns(KvTracker, call), "")
         /\ Made(KvTracker, call)
    /\ cmpCalls' = cmpCalls + 1
    /\ cmpPc' = "mem"
    /\ UNCHANGED <<tracker, compareFrame>>

\* the same call, made on the InMemoryJobTracker
CompareMem ==
    /\ cmpPc = "mem"
    /\ cmpRet' = Ret(cmpRet.kv, Returns(MemTracker, cmpCall))
    /\ Made(MemTracker, cmpCall)
    /\ cmpPc' = "kv"
    /\ UNCHANGED <<tracker, cmpCall, cmpCalls, compareFrame>>

\* ---- what proxy forwards upstream (src/gateway/app/main.py) ------------------------
\* the bodies a caller sends: empty, JSON texts of every kind, text that is
\* no JSON, bytes that are no UTF-8
RawBodies ==
    {"", "{\"a\": 1}", "[1]", "7", "true", "null", "\"x\"", "x=1", "\\xff"}

\* the query strings a caller sends, as the list of (name, value) pairs
ParamNames == {"a", "b"}
ParamValues == {"1", "2"}
Queries == UNION {[1..n -> ParamNames \X ParamValues] : n \in 0..MaxParams}

\* json.loads(raw_body.decode("utf-8")): the value, or Raised for text that
\* is no JSON and for bytes that do not decode
Raised == Value("raise", "")
json_loads(text) ==
    CASE text \in {"{\"a\": 1}", "{\"a\":1}"} -> Value("dict", "a=1")
      [] text = "[1]" -> Value("list", "1")
      [] text = "7" -> Value("int", "7")
      [] text = "true" -> Value("bool", "True")
      [] text = "null" -> PyNone
      [] text = "\"x\"" -> Value("str", "x")
      [] OTHER -> Raised

\* json.dumps of a dict as httpx encodes the json= argument
json_dumps(value) == IF value = Value("dict", "a=1") THEN "{\"a\":1}" ELSE ""

\* dict(request.query_params): one value per name, the last one, the names
\* in the order of their first appearance
RECURSIVE ParamsDict(_)
ParamsDict(pairs) ==
    IF pairs = <<>> THEN <<>>
    ELSE LET front == ParamsDict(SubSeq(pairs, 1, Len(pairs) - 1))
             last == pairs[Len(pairs)]
         IN  IF \E i \in DOMAIN front : front[i][1] = last[1]
             THEN [i \in DOMAIN front |->
                      IF front[i][1] = last[1] THEN last ELSE front[i]]
             ELSE Append(front, last)

\* everything but the components added last
oldVarsButRoutes == <<jobVars, stagingVars, gatewayVars, rateVars,
                      registerVars, compareVars>>
oldVars == <<oldVarsButRoutes, routesVars>>
OldIdle ==
    /\ JobStartup(TRUE, {1}, {""}, {0})
    /\ StagingIdle
    /\ GatewayIdle
    /\ RoutesIdle
    /\ RateIdle
    /\ RegisterIdle
    /\ CompareIdle

forwardFrame == <<oldVars, splitVars, uploadVars, esbVars, initVars>>

\* proxy: params = dict(request.query_params); for a POST with a body,
\* body = json.loads(...) or the raw bytes when that raises
ForwardRead ==
    /\ fwPc = "handler"
    /\ fwParams' = ParamsDict(fwRequest.query_params)
    /\ fwBody' =
          IF fwRequest.method = "POST" /\ fwRequest.raw_body # ""
          THEN IF json_loads(fwRequest.raw_body) = Raised
               THEN Value("bytes", fwRequest.raw_body)
               ELSE json_loads(fwRequest.raw_body)
          ELSE PyNone
    /\ fwPc' = "request"
    /\ UNCHANGED <<fwRequest, fwWire, forwardFrame>>

\* client.request(method, target, params=params, json=body if it is a dict,
\* content=body if it is bytes or str): what goes on the wire
ForwardRequest ==
    /\ fwPc = "request"
    /\ fwWire' =
          [content |-> IF fwBody.type = "dict" THEN json_dumps(fwBody)
                       ELSE IF fwBody.type \in {"bytes", "str"} THEN fwBody.value
                       ELSE "",
           query |-> fwParams]
    /\ fwPc' = "sent"
    /\ UNCHANGED <<fwRequest, fwParams, fwBody, forwardFrame>>

\* ---- split_url_for_esb (src/orchestrator/app/services/file_stage.py) ---------------
\* A URL is the sequence of its pieces: the scheme, "://", the host, then the
\* characters of the rest.
Schemes == {"http", "HTTP"}
Dirs == {<<"/", "d">>, <<"/", "d", "/", "e">>}
FileChars == {"f", ".", "?", "#"}
ServerPaths == {<<scheme, "://", "host">> \o dir : scheme \in Schemes, dir \in Dirs}
ServerFiles == UNION {[1..n -> FileChars] : n \in 1..MaxFileLen}

\* the sender's side: server_path, "/", server_file
compose(server_path, server_file) == server_path \o <<"/">> \o server_file

\* str.lower of a scheme
SchemeLower(scheme) == IF scheme = "HTTP" THEN "http" ELSE scheme

\* the pieces of text before the first one that is in stops
RECURSIVE Before(_, _)
Before(text, stops) ==
    IF text = <<>> \/ Head(text) \in stops THEN <<>>
    ELSE <<Head(text)>> \o Before(Tail(text), stops)

\* urllib.parse.urlsplit: the scheme in lower case, the netloc up to the
\* first "/", "?" or "#", the path up to the first "?" or "#"
urlsplit(url) ==
    LET has_scheme == Len(url) >= 2 /\ url[2] = "://"
        rest == IF has_scheme THEN SubSeq(url, 3, Len(url)) ELSE url
        netloc == IF has_scheme THEN Before(rest, {"/", "?", "#"}) ELSE <<>>
        after == SubSeq(rest, Len(netloc) + 1, Len(rest))
    IN  [scheme |-> IF has_scheme THEN SchemeLower(url[1]) ELSE "",
         netloc |-> netloc,
         path |-> Before(after, {"?", "#"})]

\* str.rpartition("/"): what is before the last "/" and what is after it
rpartition(path) ==
    LET slashes == {i \in DOMAIN path : path[i] = "/"}
        at == IF slashes = {} THEN 0
              ELSE CHOOSE i \in slashes : \A j \in slashes : j <= i
    IN  [head |-> SubSeq(path, 1, at - 1),
         tail |-> SubSeq(path, at + 1, Len(path))]

Split(server_path, server_file) ==
    [raised |-> FALSE, server_path |-> server_path, server_file |-> server_file]
ValueError == [raised |-> TRUE, server_path |-> <<>>, server_file |-> <<>>]

split_url_for_esb(url) ==
    LET parsed == urlsplit(url)
        parts == rpartition(parsed.path)
    IN  IF parsed.scheme = "" \/ parsed.netloc = <<>> THEN ValueError
        ELSE IF parts.tail = <<>> THEN ValueError
        ELSE Split(<<parsed.scheme, "://">> \o parsed.netloc \o parts.head,
                   parts.tail)

splitFrame == <<oldVars, forwardVars, uploadVars, esbVars, initVars>>

\* the URL of a file is put together from its server_path and server_file
SplitCompose ==
    /\ splitPc = "compose"
    /\ file_url' = compose(splitIn.server_path, splitIn.server_file)
    /\ splitPc' = "split"
    /\ UNCHANGED <<splitIn, splitOut, splitFrame>>

\* _process_doc_ocr calls split_url_for_esb(file_ref.url)
SplitUrl ==
    /\ splitPc = "split"
    /\ splitOut' = split_url_for_esb(file_url)
    /\ splitPc' = "done"
    /\ UNCHANGED <<splitIn, file_url, splitFrame>>

\* ---- upload_json_via_esb (src/orchestrator/app/services/file_stage.py) -------------
\* what the upload endpoint can answer: a status and a body, or no answer at
\* all (status 0: the connection failed or timed out)
UploadStatuses == {0, 200, 201, 204, 301, 400, 404, 500, 502}
UploadBodies == {"true", "false", "", "{}"}
UploadResponses ==
    {[status_code |-> 0, text |-> ""]}
    \cup [status_code : UploadStatuses \ {0}, text : UploadBodies]
\* no request made yet
NoUploadResponse == [url |-> "", status_code |-> 0, text |-> ""]

\* httpx.Response.raise_for_status: raises for every status that is not 2xx
RaiseForStatus(status_code) == ~(200 <= status_code /\ status_code < 300)

\* upload_json_via_esb after client.post answered: raise_for_status, then
\* ok = 200 <= resp.status_code < 300; resp.text is logged and not looked at
UploadRaises(response) ==
    \/ response.status_code = 0
    \/ RaiseForStatus(response.status_code)
    \/ ~(200 <= response.status_code /\ response.status_code < 300)

\* upload_url: ESB_BASE_URL + "/upload.do", or server_path + "/upload" when
\* no base URL is configured
UploadUrl(esb_base_url) ==
    IF esb_base_url THEN "ESB_BASE_URL/upload.do" ELSE "server_path/upload"

uploadFrame == <<oldVars, forwardVars, splitVars, esbVars, initVars>>

\* upload_json_via_esb: local_file_path must be given and the file exist
UploadCheckLocal ==
    /\ upPc = "check"
    /\ IF upIn.local_file = "exists"
       THEN upPc' = "post" /\ UNCHANGED upOutcome
       ELSE upPc' = "except" /\ upOutcome' = "raised"
    /\ UNCHANGED <<upIn, upResponse, upJob, uploadFrame>>

\* client.post(upload_url, ...) and what follows it
UploadPost ==
    /\ upPc = "post"
    /\ \E response \in UploadResponses :
          /\ upResponse' = [url |-> UploadUrl(upIn.esb_base_url),
                            status_code |-> response.status_code,
                            text |-> response.text]
          /\ IF UploadRaises(response)
             THEN upPc' = "except" /\ upOutcome' = "raised"
             ELSE upPc' = "succeeded" /\ upOutcome' = "returned"
    /\ UNCHANGED <<upIn, upJob, uploadFrame>>

\* _process_doc_ocr: except Exception around the upload writes FAILED with
\* error "upload_failed: ..."; otherwise SUCCEEDED is written
UploadWorker ==
    /\ upPc \in {"except", "succeeded"}
    /\ upJob' = IF upPc = "except"
                THEN Record("FAILED", Null, "upload_failed")
                ELSE Record("SUCCEEDED", "staged_agent_esb", Null)
    /\ upPc' = "done"
    /\ UNCHANGED <<upIn, upResponse, upOutcome, uploadFrame>>

\* ---- POST /esb-download (src/components/esb/app/main.py) ---------------------------
\* the fields of a request, "" when the field is empty
EsbRequests ==
    [server_path : {"", "http://fs/d", "http://fs/d/"},
     server_file : {"", "f", "/f"},
     local_file_path : {"", "/data/f"}]

\* what the file server does with the GET: it streams the file in some
\* chunks, breaks off after some chunks, answers a status that is not 2xx,
\* or cannot be reached
FileServerOutcomes ==
    [kind : {"ok", "broken"}, status_code : {200}, chunks : 0..MaxChunks]
    \cup [kind : {"status"}, status_code : {404, 500, 503}, chunks : {0}]
    \cup [kind : {"transport"}, status_code : {0}, chunks : {0}]
NotContacted == [kind |-> "none", status_code |-> 0, chunks |-> 0]

\* str.rstrip("/") and str.lstrip("/") on the model's paths and names
RStrip(path) == IF path = "http://fs/d/" THEN "http://fs/d" ELSE path
LStrip(name) == IF name = "/f" THEN "f" ELSE name

\* the responses of the handler: JSONResponse(content=..., status_code=...),
\* and a StreamingResponse, whose status line is sent before the first chunk
\* is asked for, so that a failing stream ends a response already begun
EsbReply(status_code, content, chunks, complete) ==
    [status_code |-> status_code, content |-> content, chunks |-> chunks,
     complete |-> complete]
NoEsbReply == EsbReply(0, "none", 0, FALSE)

\* _stream raises: resp.raise_for_status(), or the connection failed or
\* broke off
StreamRaises(outcome) == outcome.kind # "ok"

esbFrame == <<oldVars, forwardVars, splitVars, uploadVars, initVars>>

\* esb_download: the test of server_path and server_file, then the URL
EsbValidate ==
    /\ esbPc = "handler"
    /\ IF esbReq.server_path = "" \/ esbReq.server_file = ""
       THEN /\ esbReply' = EsbReply(400, "false", 0, TRUE)
            /\ esbPc' = "done"
            /\ UNCHANGED esbUrl
       ELSE /\ esbUrl' = <<RStrip(esbReq.server_path), "/", LStrip(esbReq.server_file)>>
            /\ esbPc' = IF esbReq.local_file_path # "" THEN "write" ELSE "stream"
            /\ UNCHANGED esbReply
    /\ UNCHANGED <<esbReq, esbServer, esbFrame>>

\* with local_file_path: the chunks of _stream() are written to the file;
\* any exception, of the stream or of the local write (written FALSE), is
\* caught and answered JSONResponse(content=False)
EsbWriteLocal ==
    /\ esbPc = "write"
    /\ \E outcome \in FileServerOutcomes, written \in BOOLEAN :
          /\ esbServer' = outcome
          /\ esbReply' = IF StreamRaises(outcome) \/ ~written
                         THEN EsbReply(200, "false", 0, TRUE)
                         ELSE EsbReply(200, "true", 0, TRUE)
    /\ esbPc' = "done"
    /\ UNCHANGED <<esbReq, esbUrl, esbFrame>>

\* without local_file_path: StreamingResponse(_stream()); the response
\* starts with status 200, then the generator runs
EsbStream ==
    /\ esbPc = "stream"
    /\ \E outcome \in FileServerOutcomes :
          /\ esbServer' = outcome
          /\ esbReply' = EsbReply(200, "stream", outcome.chunks,
                                  ~StreamRaises(outcome))
    /\ esbPc' = "done"
    /\ UNCHANGED <<esbReq, esbUrl, esbFrame>>

\* ---- _init_routes_once called by several tasks (src/gateway/app/main.py) -----------
Tasks == 1..MaxTasks
NoTask == 0

\* asyncio.Lock: it can be acquired when no task holds it
RoutesLockFreeAlways(holder) == TRUE
RoutesLockFree(holder) == holder = NoTask

\* the tasks between "async with app.state.routes_lock" and its end
InsideLock == {t \in Tasks : initPc[t] \in {"locked", "await"}}
\* the builds that run: the one awaited, and those abandoned at a timeout,
\* whose threads go on until _build_routes returns
BuildsRunning == threads + Cardinality({t \in Tasks : initPc[t] = "await"})

initFrame == <<oldVarsButRoutes, kvHash, boot, rq, forwardVars, splitVars,
               uploadVars, esbVars>>

Return(t, value) ==
    /\ initRet' = [initRet EXCEPT ![t] = value]
    /\ initPc' = [initPc EXCEPT ![t] = "done"]

\* a task calls _init_routes_once: the start-up task, reload_routes
InitCall(t) ==
    /\ initPc[t] = "idle"
    /\ initPc' = [initPc EXCEPT ![t] = "check"]
    /\ UNCHANGED <<routes, _routes, kvUp, routes_lock, initRet, threads,
                   installs, initFrame>>

\* if app.state.routes: return True
InitFirstCheck(t) ==
    /\ initPc[t] = "check"
    /\ IF routes # "None"
       THEN Return(t, "True")
       ELSE initPc' = [initPc EXCEPT ![t] = "lock"] /\ UNCHANGED initRet
    /\ UNCHANGED <<routes, _routes, kvUp, routes_lock, threads, installs,
                   initFrame>>

\* async with app.state.routes_lock: the task waits until the lock is free
InitAcquire(t) ==
    /\ initPc[t] = "lock"
    /\ RoutesLockFree(routes_lock)
    /\ routes_lock' = t
    /\ initPc' = [initPc EXCEPT ![t] = "locked"]
    /\ UNCHANGED <<routes, _routes, kvUp, initRet, threads, installs, initFrame>>

\* the second test under the lock; then asyncio.to_thread(_build_routes)
\* starts the build in a thread and the task awaits it
InitSecondCheck(t) ==
    /\ initPc[t] = "locked"
    /\ IF routes # "None"
       THEN Return(t, "True") /\ routes_lock' = NoTask
       ELSE /\ initPc' = [initPc EXCEPT ![t] = "await"]
            /\ UNCHANGED <<initRet, routes_lock>>
    /\ UNCHANGED <<routes, _routes, kvUp, threads, installs, initFrame>>

\* the build returned in time: app.state.routes = the table; RouteTable()
\* has read the hash, or started empty when the read raised
InitBuilt(t) ==
    /\ initPc[t] = "await"
    /\ routes' = "RouteTable"
    /\ _routes' = IF kvUp THEN kvHash ELSE <<>>
    /\ installs' = installs + 1
    /\ Return(t, "True")
    /\ routes_lock' = NoTask
    /\ UNCHANGED <<kvUp, threads, initFrame>>

\* except asyncio.TimeoutError: wait_for gives up after timeout_sec; the
\* thread cannot be stopped and goes on with its build, whose result nobody
\* takes; app.state.routes = None
InitTimeout(t) ==
    /\ initPc[t] = "await"
    /\ ~kvUp
    /\ threads' = threads + 1
    /\ routes' = "None"
    /\ Return(t, "False")
    /\ routes_lock' = NoTask
    /\ UNCHANGED <<_routes, kvUp, installs, initFrame>>

\* except Exception: _build_routes raised; app.state.routes = None
InitFailed(t) ==
    /\ initPc[t] = "await"
    /\ ~kvUp
    /\ routes' = "None"
    /\ Return(t, "False")
    /\ routes_lock' = NoTask
    /\ UNCHANGED <<_routes, kvUp, threads, installs, initFrame>>

\* the thread of an abandoned build comes to its end
ThreadEnds ==
    /\ threads > 0
    /\ threads' = threads - 1
    /\ UNCHANGED <<routes, _routes, kvUp, routes_lock, initPc, initRet,
                   installs, initFrame>>

\* the store becomes unreachable, or reachable again
InitKvFlip ==
    /\ kvUp' = ~kvUp
    /\ UNCHANGED <<routes, _routes, routes_lock, initPc, initRet, threads,
                   installs, initFrame>>

\* ---- specifications ---------------------------------------------------------------
\* the fleet from start-up on, the KV client connecting in the background
Next ==
    \/ InitRedisOnce
    \/ \E p \in Posts : Post(p)
    \/ \E p \in Posts : Worker(p)
    \/ \E p \in Posts : WorkerDie(p)
    \/ \E d \in {IDEMPOTENCY_TTL_SEC, JOB_TTL_SEC} : Tick(d)

Spec == Init /\ [][Next]_vars

\* the same with status queries, for a one-file request without callback
InitGet == Startup(FALSE, {1}, {""}, {1})

NextGet == Next \/ GetStatus

SpecGet == InitGet /\ [][NextGet]_vars

\* the fleet with the KV client connected, over every callback configuration;
\* the clock advances by IDEMPOTENCY_TTL, so that no job record expires
InitConnected == Startup(TRUE, {1}, {"", "url"}, 0..MaxRetries)

NextConnected ==
    \/ \E p \in Posts : Post(p)
    \/ \E p \in Posts : Worker(p)
    \/ \E p \in Posts : WorkerDie(p)
    \/ Tick(IDEMPOTENCY_TTL_SEC)

SpecConnected == InitConnected /\ [][NextConnected]_vars

\* no process dies, and the event loop runs every worker that can take a step
NextLive ==
    \/ \E p \in Posts : Post(p)
    \/ \E p \in Posts : Worker(p)

SpecLive ==
    /\ InitConnected
    /\ [][NextLive]_vars
    /\ \A p \in Posts : WF_vars(Worker(p))

\* the staging of one request: its file refs are any of the model's, the
\* worker stands at the head of its download loop
InitStaging ==
    /\ JobStartup(TRUE, {1}, {""}, {0})
    /\ file_refs \in UNION {[1..n -> FileRefs] : n \in 1..MaxRefs}
    /\ refno = 1
    /\ used_filenames = {}
    /\ staged_files = <<>>
    /\ disk = <<>>
    /\ stage = "download"
    /\ GatewayIdle
    /\ HubIdle

NextStaging == StageDownload \/ StageAdapter \/ StageWriteResult \/ StageUpload

SpecStaging == InitStaging /\ [][NextStaging]_vars

\* one request at the gateway's proxy endpoint
InitGateway ==
    /\ JobStartup(TRUE, {1}, {""}, {0})
    /\ StagingIdle
    /\ gwRequest \in Requests
    /\ gwPc = "arrived"
    /\ gwHeaders = <<>>
    /\ gwUpstream = NoUpstream
    /\ gwReply = NoReply
    /\ gwReplyHeaders = <<>>
    /\ HubIdle

NextGateway == ProxyAdmit \/ ProxyForward \/ ProxyReply

SpecGateway == InitGateway /\ [][NextGateway]_vars

\* the gateway's route endpoints from start-up on, the store coming and going
InitRoutes ==
    /\ JobStartup(TRUE, {1}, {""}, {0})
    /\ StagingIdle
    /\ GatewayIdle
    /\ routes = "None"
    /\ _routes = <<>>
    /\ kvHash = <<>>
    /\ kvUp \in BOOLEAN
    /\ boot = "pending"
    /\ rq = [r \in Slots |-> NoRequest]
    /\ RateIdle
    /\ RegisterIdle
    /\ CompareIdle
    /\ RestIdle

NextRoutes ==
    \/ BootstrapRoutes
    \/ KvFlip
    \/ \E r \in Slots : RouteArrive(r)
    \/ \E r \in Slots : ProxyResolve(r)
    \/ \E r \in Slots : RegisterAdd(r)
    \/ \E r \in Slots : RegisterHset(r)
    \/ \E r \in Slots : ReloadInit(r)
    \/ \E r \in Slots : ReloadHgetall(r)
    \/ \E r \in Slots : ReloadAssign(r)

SpecRoutes == InitRoutes /\ [][NextRoutes]_vars

\* the clients' requests to the proxy endpoint, window after window
InitRate ==
    /\ JobStartup(TRUE, {1}, {""}, {0})
    /\ StagingIdle
    /\ GatewayIdle
    /\ RoutesIdle
    /\ RateIdle
    /\ RegisterIdle
    /\ CompareIdle
    /\ RestIdle

NextRate ==
    \/ \E c \in Clients : RateRequest(c)
    \/ \E c \in Clients : WindowExpires(c)

SpecRate == InitRate /\ [][NextRate]_vars

\* lifespan at its call of register_to_gateway, for any number of declared
\* endpoints; the event loop runs the coroutine whenever it can go on
InitRegister ==
    /\ JobStartup(FALSE, {1}, {""}, {0})
    /\ StagingIdle
    /\ GatewayIdle
    /\ RoutesIdle
    /\ RateIdle
    /\ CompareIdle
    /\ RestIdle
    /\ endpoints \in 0..MaxEndpoints
    /\ regEp = 0
    /\ regAttempt = 0
    /\ regOk = FALSE
    /\ regPc = "for"
    /\ regPosts = [e \in Endpoints |-> 0]
    /\ regSlept = [e \in Endpoints |-> 0]
    /\ got200 = {}

NextRegister ==
    \/ RegisterNextEndpoint
    \/ RegisterPost
    \/ RegisterSleep
    \/ RegisterGiveUp

SpecRegister == InitRegister /\ [][NextRegister]_vars /\ WF_vars(NextRegister)

\* the two trackers, freshly constructed, under any sequence of MaxCalls
\* calls; no time passes
InitCompare ==
    /\ JobStartup(TRUE, {1}, {""}, {0})
    /\ StagingIdle
    /\ GatewayIdle
    /\ RoutesIdle
    /\ RateIdle
    /\ RegisterIdle
    /\ RestIdle
    /\ cmpPc = "create"
    /\ cmpCall = NoCall
    /\ cmpRet = Ret("", "")
    /\ cmpCalls = 0

NextCompare == CompareCreate \/ CompareKv \/ CompareMem

SpecCompare == InitCompare /\ [][NextCompare]_vars

\* one request at the proxy endpoint, for every method, body and query string
InitForward ==
    /\ OldIdle
    /\ InitIdle
    /\ SplitIdle
    /\ UploadIdle
    /\ EsbIdle
    /\ fwRequest \in [method : {"GET", "POST"}, raw_body : RawBodies,
                      query_params : Queries]
    /\ fwPc = "handler"
    /\ fwParams = <<>>
    /\ fwBody = PyNone
    /\ fwWire = [content |-> "", query |-> <<>>]

NextForward == ForwardRead \/ ForwardRequest

SpecForward == InitForward /\ [][NextForward]_vars

\* every server_path and server_file of the model, composed and split again
InitSplit ==
    /\ OldIdle
    /\ InitIdle
    /\ ForwardIdle
    /\ UploadIdle
    /\ EsbIdle
    /\ splitIn \in [server_path : ServerPaths, server_file : ServerFiles]
    /\ file_url = <<>>
    /\ splitOut = ValueError
    /\ splitPc = "compose"

NextSplit == SplitCompose \/ SplitUrl

SpecSplit == InitSplit /\ [][NextSplit]_vars

\* the worker at its call of upload_json_via_esb, the job record UPLOADING
InitUpload ==
    /\ OldIdle
    /\ InitIdle
    /\ ForwardIdle
    /\ SplitIdle
    /\ EsbIdle
    /\ upIn \in [local_file : {"none", "missing", "exists"},
                 esb_base_url : BOOLEAN]
    /\ upResponse = NoUploadResponse
    /\ upOutcome = "none"
    /\ upJob = Record("UPLOADING", "staged_agent", Null)
    /\ upPc = "check"

NextUpload == UploadCheckLocal \/ UploadPost \/ UploadWorker

SpecUpload == InitUpload /\ [][NextUpload]_vars

\* one request at POST /esb-download
InitEsb ==
    /\ OldIdle
    /\ InitIdle
    /\ ForwardIdle
    /\ SplitIdle
    /\ UploadIdle
    /\ esbReq \in EsbRequests
    /\ esbUrl = <<>>
    /\ esbServer = NotContacted
    /\ esbReply = NoEsbReply
    /\ esbPc = "handler"

NextEsb == EsbValidate \/ EsbWriteLocal \/ EsbStream

SpecEsb == InitEsb /\ [][NextEsb]_vars

\* MaxTasks tasks that each call _init_routes_once once, in any interleaving
\* of their awaits, the store coming and going
InitInit ==
    /\ JobStartup(TRUE, {1}, {""}, {0})
    /\ StagingIdle
    /\ GatewayIdle
    /\ RateIdle
    /\ RegisterIdle
    /\ CompareIdle
    /\ ForwardIdle
    /\ SplitIdle
    /\ UploadIdle
    /\ EsbIdle
    /\ routes = "None"
    /\ _routes = <<>>
    /\ kvHash \in {<<>>, [key \in {"tools.add"} |-> "http://a"]}
    /\ kvUp \in BOOLEAN
    /\ boot = "idle"
    /\ rq = [r \in Slots |-> NoRequest]
    /\ routes_lock = NoTask
    /\ initPc = [t \in Tasks |-> "idle"]
    /\ initRet = [t \in Tasks |-> "none"]
    /\ threads = 0
    /\ installs = 0

NextInit ==
    \/ \E t \in Tasks : InitCall(t)
    \/ \E t \in Tasks : InitFirstCheck(t)
    \/ \E t \in Tasks : InitAcquire(t)
    \/ \E t \in Tasks : InitSecondCheck(t)
    \/ \E t \in Tasks : InitBuilt(t)
    \/ \E t \in Tasks : InitTimeout(t)
    \/ \E t \in Tasks : InitFailed(t)
    \/ ThreadEnds
    \/ InitKvFlip

SpecInit == InitInit /\ [][NextInit]_vars

\* ---- properties --------------------------------------------------------------------
\* the POSTs that went to the shared KV store
OnKv == {p \in Posts : pc[p] # "idle" /\ tracker[p] = "redis"}
Accepted == {p \in Posts : resp[p].code = 202}
AllOnKv == \A p \in Posts : pc[p] # "idle" => tracker[p] = "redis"

\* C1: at every instant at most one worker of the request id is active among
\* the processes that share the KV store, the lock's expiry included.
C1_AtMostOneActiveWorker ==
    Cardinality({p \in OnKv : Active(p)}) <= 1

\* C2: however the POSTs of one request id interleave, at most one of them
\* returns 202 and starts a worker, and no file ref is downloaded twice.
\* Stated for the runs in which every POST used the shared KV store and no
\* key has expired.
C2_ExecutedAtMostOnce ==
    (AllOnKv /\ ticks = 0) =>
        /\ Cardinality(Accepted) <= 1
        /\ \A f \in 1..MaxFiles : downloads[f] <= 1

\* C3: once the job record holds SUCCEEDED or FAILED, no later write gives it
\* another status.  Stated for the runs in which no key has expired.
C3_TerminalNeverOverwritten ==
    [][(ticks' = 0 /\ job.status \in Terminal) => job'.status = job.status]_vars

\* C4: the delete of release_lock(id, t) never removes a lock whose stored
\* value is a token other than t.
C4_ReleaseDeletesOwnLockOnly ==
    [][\A p \in Posts :
         (wpc[p] = "release_delete" /\ lock # NoToken /\ lock' = NoToken
             /\ wpc'[p] = "done")
         => lock = token[p]]_vars

\* what the tracker of POST p holds, read off the store itself
Stored(p) == IF tracker[p] = "redis" THEN job ELSE memJobs[p]
LockHeld(p) == IF tracker[p] = "redis" THEN lock # NoToken ELSE memLocks[p]
Replied(p) == pc[p] = "done" /\ resp[p].code \in {200, 202}

\* C5: a POST with a valid body returns 202 RECEIVED exactly when it found no
\* record, acquired the lock, wrote RECEIVED and spawned a worker; it returns
\* the record it found, without 202, when one exists; it returns RUNNING,
\* without 202, when there is no record and the lock is held; and on the two
\* paths without 202 no step of it changes the job record or the lock.
C5_PostReplies ==
    /\ [](\A p \in Posts : Replied(p) =>
            /\ (resp[p].code = 202) <=>
                 (existing[p] = NoJob /\ token[p] # NoToken /\ wpc[p] # "none")
            /\ resp[p].code = 202 =>
                 resp[p] = Response(202, "RECEIVED", Null, Null)
            /\ existing[p] # NoJob =>
                 resp[p] = Response(200, existing[p].status,
                                    existing[p].result, existing[p].error)
            /\ (existing[p] = NoJob /\ resp[p].code = 200) =>
                 /\ token[p] = NoToken
                 /\ resp[p] = Response(200, "RUNNING", Null, Null))
    /\ [][\A p \in Posts : pc'[p] # pc[p] =>
            /\ (pc[p] = "get_job" /\ resp'[p].code # 500) =>
                 existing'[p] = Stored(p)
            /\ (pc[p] = "acquire_lock" /\ resp'[p].code # 500) =>
                 ((token'[p] # NoToken) <=> ~LockHeld(p))
            /\ resp'[p].code = 202 =>
                 /\ Stored(p)' = Record("RECEIVED", Null, Null)
                 /\ wpc[p] = "none" /\ wpc'[p] = "start"
            /\ token'[p] = NoToken =>
                 UNCHANGED <<job, jobTtl, lock, lockTtl, memJobs, memLocks>>]_vars

\* C5 witness: one POST was accepted with 202, another found no record and
\* the lock held and was answered RUNNING.
C5_Witness ==
    \E p, q \in Posts :
        /\ resp[p] = Response(202, "RECEIVED", Null, Null)
        /\ pc[q] = "done" /\ existing[q] = NoJob /\ token[q] = NoToken
        /\ resp[q] = Response(200, "RUNNING", Null, Null)

\* the worker is in its finally block or releasing the lock
Finishing(p) == wpc[p] \in {"callback", "release_lock", "release_delete"}

\* C6: a worker that reaches its finally block (download, adapter and upload
\* have each returned or failed, the process is alive) has written SUCCEEDED
\* or FAILED to the job record.
C6_TerminalWritten ==
    \A p \in Posts : Finishing(p) => lastSet[p] \in Terminal

\* What does hold of the worker: every accepted POST's worker reaches its
\* finally block, having written SUCCEEDED or FAILED unless its last
\* set_status call raised.
WorkerReachesFinally ==
    \A p \in Posts :
        (wpc[p] = "start") ~>
            (wpc[p] = "callback" /\ lastSet[p] \in Terminal \cup {"RAISED"})

\* C7: once a POST for the request id returned 202, a GET within JOB_TTL (here:
\* before any time has passed) does not answer UNKNOWN.
C7_GetSeesAcceptedJob ==
    [][(gets' = gets + 1 /\ ticks = 0 /\ getResp'.code = 200
           /\ \E p \in Posts : resp[p].code = 202)
       => getResp'.status # "UNKNOWN"]_vars

\* C8: after a worker died with RECEIVED or RUNNING written and the lock has
\* expired, a POST that looks the request id up goes on as a fresh request
\* (to acquire_lock, 202 and a new worker).
C8_FreshAfterLockExpiry ==
    [][\A p \in Posts :
         (/\ pc[p] = "get_job" /\ pc'[p] # pc[p] /\ resp'[p].code # 500
          /\ ticks > 0 /\ lock = NoToken
          /\ job.status \in {"RECEIVED", "RUNNING"}
          /\ \E q \in Posts \ {p} : wpc[q] = "dead")
         => pc'[p] = "acquire_lock"]_vars

\* C9: the callback POSTs made for the job (all workers of the request id
\* taken together) never number more than max_retries.
C9_CallbackPostsPerJob ==
    \A p, q \in OnKv : p # q => attempt[p] + attempt[q] <= max_retries

\* What does hold of one _send_callback call: its attempts are numbered
\* 1..max_retries, one POST each; the loop ends at the first 2xx answer, and
\* gives up only after attempt max_retries failed.
CallbackAttemptsPerCall ==
    /\ [](\A p \in Posts :
            /\ attempt[p] \in 0..max_retries
            /\ cbOutcome[p] = "ok" => attempt[p] \in 1..max_retries
            /\ cbOutcome[p] = "giveup" => attempt[p] = max_retries
            /\ cbOutcome[p] = "skip" => (attempt[p] = 0 /\ callback_url = "")
            /\ wpc[p] \in {"release_lock", "release_delete"} =>
                 cbOutcome[p] # "none")
    /\ [][\A p \in Posts :
            /\ attempt'[p] \in {attempt[p], attempt[p] + 1, 0}
            /\ cbOutcome[p] # "none" => attempt'[p] \in {attempt[p], 0}]_vars

Backoff(n) == [k \in 1..n |-> DOC_OCR_CALLBACK_BASE_DELAY_SEC * Pow2(k - 1)]

\* C10 as claimed: after persistent failure a delay of base_delay * 2^(k-1)
\* has been slept after every attempt k in 1..max_retries.
C10_DelayAfterEveryAttempt ==
    \A p \in Posts : cbOutcome[p] = "giveup" => delays[p] = Backoff(max_retries)

\* C10 as amended: the delays slept are base_delay * 2^(k-1) for the failed
\* attempts k in 1..max_retries-1, in order; none follows attempt max_retries.
C10_BackoffDelays ==
    \A p \in Posts :
        LET failed == IF cbOutcome[p] = "ok" THEN attempt[p] - 1 ELSE attempt[p]
            slept == IF failed < max_retries THEN failed
                     ELSE Max(max_retries - 1, 0)
        IN  delays[p] = Backoff(slept)

\* C10 witness: MaxRetries attempts failed, MaxRetries - 1 delays were slept.
C10_Witness ==
    \E p \in Posts :
        /\ max_retries = MaxRetries /\ cbOutcome[p] = "giveup"
        /\ Len(delays[p]) = MaxRetries - 1

\* the worker is inside _send_callback and takes a step of it
CallbackStep(p) ==
    /\ wpc[p] = "callback"
    /\ <<attempt[p], delays[p], cbOutcome[p]>>' # <<attempt[p], delays[p], cbOutcome[p]>>
    /\ wpc'[p] # "dead"

\* C11: no step of _send_callback, whatever its outcome (2xx at some attempt,
\* give-up, skip), changes the job record or its expiry; and as long as no key
\* has expired, the record a worker's callback reports stays as it is from the
\* start of the callback to its end.
C11_CallbackLeavesRecord ==
    [][\A p \in Posts :
         /\ CallbackStep(p) => UNCHANGED <<job, jobTtl, memJobs>>
         /\ (wpc[p] = "callback" /\ ticks' = 0) => Stored(p)' = Stored(p)]_vars

\* C11 witness: a callback has given up after MaxRetries failed attempts and
\* the record still holds the terminal status the worker wrote.
C11_Witness ==
    \E p \in Posts :
        /\ cbOutcome[p] = "giveup" /\ attempt[p] = MaxRetries
        /\ lastSet[p] \in Terminal /\ Stored(p).status = lastSet[p]

\* C12: a POST whose body is not a JSON object is answered 400, one with
\* neither file nor files 422, and no other POST is; such a POST has written
\* no job record, taken no lock and started no worker, and the step that
\* rejects it leaves every job record and every lock as it was.
C12_MalformedBodyRejected ==
    /\ [](\A p \in Posts :
            /\ body[p] = "not_object" => (pc[p] = "done" /\ resp[p].code = 400)
            /\ body[p] = "no_files" => (pc[p] = "done" /\ resp[p].code = 422)
            /\ resp[p].code \in {400, 422} => body[p] \in {"not_object", "no_files"}
            /\ body[p] \in {"not_object", "no_files"} =>
                 /\ existing[p] = NoJob /\ token[p] = NoToken
                 /\ memJobs[p] = NoJob /\ ~memLocks[p]
                 /\ lastSet[p] = "NONE" /\ wpc[p] = "none")
    /\ [][\A p \in Posts :
            (body'[p] # body[p] /\ body'[p] \in {"not_object", "no_files"}) =>
                UNCHANGED <<job, jobTtl, lock, lockTtl, memJobs, memLocks, wpc>>]_vars

\* C12 witness: one POST was rejected with 400 and another with 422.
C12_Witness ==
    \E p, q \in Posts :
        /\ body[p] = "not_object" /\ resp[p].code = 400
        /\ body[q] = "no_files" /\ resp[q].code = 422

\* worker p's download of a file ref fails in this step
DownloadFails(p) ==
    /\ wpc[p] = "download" /\ downloads' # downloads
    /\ wpc'[p] \notin {"download", "adapter", "dead"}

\* C13: when the download of a file ref fails, the worker writes FAILED with
\* error download_failed and result null and goes to its finally block,
\* without another download, the adapter, UPLOADING or the upload.
C13_DownloadFailureRecorded ==
    [][\A p \in Posts :
         DownloadFails(p) =>
            /\ Stored(p)' = Record("FAILED", Null, "download_failed")
            /\ wpc'[p] = "callback"]_vars

\* C14: the except block of the worker leaves the job record FAILED with the
\* message of the exception as error (and result null) before the callback
\* is sent and the lock released.
C14_ExceptionRecorded ==
    [][\A p \in Posts :
         (wpc[p] = "except" /\ wpc'[p] = "callback") =>
            Stored(p)' = Record("FAILED", Null, "exception")]_vars

\* worker p's upload through the ESB fails in this step
UploadFails(p) == wpc[p] = "upload" /\ loc'[p].error = "upload_failed"

\* What does hold of SUCCEEDED: a worker writes it only from the upload step,
\* after every file ref was downloaded and UPLOADING was written (the adapter
\* had answered ok), and never when the upload failed; the record then holds
\* the staged files, the adapter's data and esb_upload.
SucceededOnlyAfterAllSteps ==
    [][\A p \in Posts :
         (lastSet'[p] = "SUCCEEDED" /\ lastSet[p] # "SUCCEEDED") =>
            /\ wpc[p] = "upload" /\ lastSet[p] = "UPLOADING"
            /\ idx[p] = nfiles /\ \A f \in 1..nfiles : downloads[f] >= 1
            /\ ~UploadFails(p)
            /\ Stored(p)' = Record("SUCCEEDED", "staged_agent_esb", Null)]_vars

\* C15: SUCCEEDED is written only after every download, the adapter and the
\* upload succeeded, with the staged files and esb_upload in the result; and
\* an upload failure leaves the record FAILED with error upload_failed.
C15_SucceededOrUploadFailed ==
    /\ SucceededOnlyAfterAllSteps
    /\ [][\A p \in Posts :
            UploadFails(p) =>
                Stored(p)' = Record("FAILED", Null, "upload_failed")]_vars

\* what staged file number i claims is what the file at its path holds
Intact(i) ==
    LET staged == staged_files[i]
        file == disk[staged.local_path]
    IN  /\ staged.sha256 = Sha256(file)
        /\ staged.size_bytes = Len(file)

\* What does hold of download_to_staging: when it returns, the hash and the
\* size it reports are those of the file it has just written.
DownloadHashesWhatItWrites ==
    [][Len(staged_files') > Len(staged_files) =>
         LET staged == staged_files'[Len(staged_files')]
             file == disk'[staged.local_path]
         IN  /\ staged.sha256 = Sha256(file)
             /\ staged.size_bytes = Len(file)]_vars

\* C16: when the request has succeeded, every staged entry's sha256 and
\* size_bytes are those of the file at its local_path.
C16_StagedFilesIntact ==
    stage = "succeeded" => \A i \in 1..Len(staged_files) : Intact(i)

\* C17: the local filenames of the staged files of a request are pairwise
\* distinct.
C17_FilenamesDistinct ==
    \A i, j \in 1..Len(staged_files) :
        i # j => staged_files[i].local_path # staged_files[j].local_path

\* the request was forwarded and client.request has returned or raised
Forwarded == gwPc = "done" /\ gwUpstream # NoUpstream

\* C18: the reply to a forwarded request follows from the upstream outcome:
\* below 400 gives 200 / 0 / ok, 400 or above 502 / the upstream status /
\* upstream_error, a timeout 504 / 504 / upstream_timeout, another transport
\* error 502 / 502 / bad_gateway; the data is the parsed body, a scalar
\* wrapped as {value: ...}, unparsable text as {raw: ...}.
C18_ReplyFollowsUpstream ==
    Forwarded =>
        CASE gwUpstream.kind = "timeout" ->
               gwReply = Reply(504, "envelope", 504, "upstream_timeout", NoData)
          [] gwUpstream.kind = "transport_error" ->
               gwReply = Reply(502, "envelope", 502, "bad_gateway", NoData)
          [] OTHER ->
               LET st == gwUpstream.status_code
                   b == gwUpstream.body
                   data == IF b \in {"object", "array"} THEN Data("none", b)
                           ELSE IF b = "text" THEN Data("raw", b)
                           ELSE Data("value", b)
               IN  gwReply = IF st < 400
                             THEN Reply(200, "envelope", 0, "ok", data)
                             ELSE Reply(502, "envelope", st, "upstream_error", data)

\* C19: every response of the proxy endpoint has the envelope {code, message,
\* data} as its body.
C19_EnvelopeClosure == gwPc = "done" => gwReply.body_kind = "envelope"

\* What does hold of the forwarded headers: none of the stripped names is
\* among them.
HopByHopStripped == DOMAIN gwHeaders \cap HOP_BY_HOP = {}

\* C20: the forwarded request carries none of the client's host,
\* content-length, transfer-encoding, connection, expect, accept-encoding
\* headers, and every other header line of the client with its value.
C20_HeaderHygiene ==
    gwPc \in {"sent", "done"} /\ (gwPc = "done" => Forwarded) =>
        /\ HopByHopStripped
        /\ \A i \in DOMAIN gwRequest.headers :
              LET line == gwRequest.headers[i]
              IN  line.name \notin HOP_BY_HOP =>
                    /\ line.name \in DOMAIN gwHeaders
                    /\ gwHeaders[line.name] = line.value

\* ---- the gateway's middleware and route table ------------------------------------
\* the requests of a kind that have been answered with a status
Answered(kind, status_code) ==
    {r \in Slots : rq[r].kind = kind /\ rq[r].pc = "done"
                   /\ rq[r].reply.status_code = status_code}
\* no register and no reload is under way
Quiescent == \A r \in Slots : rq[r].pc \in {"idle", "done", "forward"}

\* C21: with GW_API_KEY configured, a request whose X-Api-Key is missing or
\* different is answered 401, and it reaches no handler: it is not forwarded
\* upstream and changes no route.
C21_BadKeyAnswered401 ==
    \A r \in Slots :
        (rq[r].kind # "none" /\ ~rq[r].key_ok) =>
            (rq[r].pc = "done" /\ rq[r].reply.status_code = 401)

\* What does hold of such a request: it is turned away before any handler,
\* with 401 or with the server's 500, and no step of it touches the table.
BadKeyNeverHandled ==
    /\ [](\A r \in Slots :
            (rq[r].kind # "none" /\ ~rq[r].key_ok) =>
                (rq[r].pc = "done" /\ rq[r].reply.status_code \in {401, 500}))
    /\ [][\A r \in Slots :
            (rq'[r] # rq[r] /\ ~rq'[r].key_ok) =>
                UNCHANGED <<routes, _routes, kvHash>>]_vars

\* header names are compared without regard to case
Lower(name) ==
    CASE name = "X-Trace-Id" -> "x-trace-id"
      [] name = "X-Request-Id" -> "x-request-id"
      [] OTHER -> name

\* C22: every response of the gateway, whatever its status, carries an
\* X-Trace-Id header: the request's own when the client sent one, otherwise
\* the id newly assigned.
C22_TraceIdOnEveryResponse ==
    gwPc = "done" =>
        /\ "X-Trace-Id" \in DOMAIN gwReplyHeaders
        /\ gwReplyHeaders["X-Trace-Id"] = TraceId(gwRequest.headers)

\* C23: the forwarded request carries exactly one X-Trace-Id header, whose
\* value is the client's when the client sent one and otherwise the UUID
\* generated for the request (the id the response echoes).
C23_OneTraceIdForwarded ==
    gwPc = "sent" =>
        LET names == {n \in DOMAIN gwHeaders : Lower(n) = "x-trace-id"}
        IN  /\ Cardinality(names) = 1
            /\ \A n \in names : gwHeaders[n] = TraceId(gwRequest.headers)

\* C26: after the start-up initialisation failed or timed out, the proxy
\* endpoint and /register run the initialisation again, so that with the
\* store reachable the table is ready once such a request has been handled.
C26_RequestRetriesInit ==
    [][\A r \in Slots :
         (/\ rq[r].kind \in {"proxy", "register"}
          /\ rq[r].pc = "handler" /\ rq'[r].pc # "handler"
          /\ boot = "done" /\ routes = "None" /\ kvUp)
         => routes' = "RouteTable"]_vars

\* the urls the completed registrations of a key carried
AddedUrls(key) ==
    {rq[r].url : r \in {q \in Answered("register", 200) : rq[q].key = key}}

\* C27: after add(key, url) completed, resolve returns the url for the key
\* and the KV hash holds the same url; a later add for the key replaces
\* both.  Checked whenever no register is under way and no reload was
\* ever requested.
C27_AddUpserts ==
    (Quiescent /\ \A r \in Slots : rq[r].kind # "reload") =>
        \A key \in RouteKeys :
            AddedUrls(key) # {} =>
                /\ key \in DOMAIN kvHash
                /\ resolve(key) = kvHash[key]
                /\ resolve(key) \in AddedUrls(key)

\* C28: however /register, reload() and resolve interleave, once the add
\* and the reload have both completed the in-memory snapshot equals the KV
\* hash, and a route whose registration returned ok is resolvable.
C28_SnapshotEqualsHash ==
    (/\ Quiescent
     /\ Answered("register", 200) # {}
     /\ Answered("reload", 200) # {}
     /\ \A r \in Slots : rq[r].kind = "register" => r \in Answered("register", 200))
    => /\ _routes = kvHash
       /\ \A r \in Answered("register", 200) : resolve(rq[r].key) # Null

\* request r leaves its handler's first step
Handled(r) == rq[r].pc = "handler" /\ rq'[r].pc # "handler"
Refused(r, reply) ==
    /\ rq'[r].pc = "done" /\ rq'[r].reply = reply
    /\ UNCHANGED <<_routes, kvHash>>

\* C25 as claimed: while the table is not ready the proxy endpoint, POST
\* /register and GET /routes/reload each answer 503 routes_not_ready; with a
\* ready table an unregistered category.action answers 404; in none of these
\* cases is a request forwarded or a route added.
C25_NotReadyAnswers503 ==
    [][\A r \in Slots : Handled(r) =>
         /\ routes = "None" => Refused(r, HttpError(503, "routes_not_ready"))
         /\ (routes # "None" /\ rq[r].kind = "proxy" /\ resolve(rq[r].key) = Null)
              => Refused(r, HttpError(404, "component_not_found"))]_vars

\* C25 as amended: the same of the proxy endpoint and /register; GET
\* /routes/reload first runs the initialisation and answers 503 only when
\* the table is still not ready after it, otherwise it goes on to reload.
C25_NotReadyOrUnknown ==
    [][\A r \in Slots : Handled(r) =>
         /\ (routes = "None" /\ rq[r].kind # "reload")
              => Refused(r, HttpError(503, "routes_not_ready"))
         /\ (routes = "None" /\ rq[r].kind = "reload") =>
              IF routes' = "None"
              THEN Refused(r, HttpError(503, "routes_not_ready"))
              ELSE rq'[r].pc = "hgetall" /\ kvHash' = kvHash
         /\ (routes # "None" /\ rq[r].kind = "proxy" /\ resolve(rq[r].key) = Null)
              => Refused(r, HttpError(404, "component_not_found"))]_vars

\* C25 witness: a registration and a reload were answered 503, and later a
\* proxy request for an unregistered route 404.
C25_Witness ==
    /\ Answered("register", 503) # {}
    /\ Answered("reload", 503) # {}
    /\ Answered("proxy", 404) # {}

\* C24: for each client address, within a 60-second window the first 60
\* requests to the proxy endpoint are handled normally and the 61st is
\* answered 429 with the plain text 'Too many requests'.
C24_SixtyFirstAnswered429 ==
    \A c \in Clients :
        /\ served[c] \in 1..RATE_LIMIT => rateReply[c] = Proxied
        /\ served[c] = RATE_LIMIT + 1 => rateReply[c] = TooManyRequests

\* C29: register_to_gateway makes at most REGISTER_MAX_ATTEMPTS POSTs per
\* declared endpoint and none after the first answer 200; it sleeps
\* REGISTER_RETRY_SECONDS after every failed attempt, so between any two
\* attempts; after a give-up it goes on to the next endpoint; and it
\* always returns, so that start-up goes on, registered or not.
C29_RegistrationBounded ==
    /\ [](\A e \in Endpoints :
            /\ regPosts[e] <= REGISTER_MAX_ATTEMPTS
            /\ e > regEp => (regPosts[e] = 0 /\ e \notin got200)
            /\ e \in got200 => (e < regEp \/ (e = regEp /\ regOk)))
    /\ [](regPc = "post" =>
            /\ regPosts[regEp] = regAttempt - 1
            /\ regSlept[regEp] = (regAttempt - 1) * REGISTER_RETRY_SECONDS)
    /\ [][\A e \in Endpoints : e \in got200 => regPosts'[e] = regPosts[e]]_vars
    /\ [](regPc = "started" =>
            \A e \in 1..endpoints :
                e \in got200 \/ regPosts[e] = REGISTER_MAX_ATTEMPTS)
    /\ <>(regPc = "started")

\* C29 witness: start-up went on after the first endpoint was given up
\* (REGISTER_MAX_ATTEMPTS failures) and the second registered at a retry.
C29_Witness ==
    /\ regPc = "started" /\ endpoints = MaxEndpoints
    /\ 1 \notin got200 /\ regPosts[1] = REGISTER_MAX_ATTEMPTS
    /\ MaxEndpoints \in got200 /\ regPosts[MaxEndpoints] > 1

\* C30: for every sequence of ensure_request_id, get_job, acquire_lock,
\* release_lock and set_status calls without TTL expiry, InMemoryJobTracker
\* returns what JobTracker returns and is left with the same lock and the
\* same record; in particular release_lock with a token other than the one
\* acquire_lock returned leaves the lock held.
C30_TrackersAgree ==
    (cmpPc = "kv" /\ cmpCalls > 0) =>
        /\ cmpRet.kv = cmpRet.mem
        /\ (lock # NoToken) = memLocks[MemTracker]
        /\ job = memJobs[MemTracker]
        /\ (cmpCall = Call("release_lock", "other") /\ lock # NoToken) =>
             memLocks[MemTracker]

\* ---- the order of the worker's steps ------------------------------------------------
\* the status changes RECEIVED -> RUNNING -> (UPLOADING ->)? terminal
StatusOrder ==
    {<<"NONE", "RECEIVED">>, <<"RECEIVED", "RUNNING">>, <<"RUNNING", "UPLOADING">>,
     <<"RUNNING", "FAILED">>, <<"UPLOADING", "SUCCEEDED">>, <<"UPLOADING", "FAILED">>}

\* C34: for one accepted request the job record goes through RECEIVED,
\* RUNNING, optionally UPLOADING, then one terminal status, SUCCEEDED only
\* straight after UPLOADING, and nothing is written after the terminal
\* write.  Stated of the record on the KV store while no key has expired.
C34_StatusOrder ==
    [][(ticks' = 0 /\ job'.status # job.status) =>
          <<job.status, job'.status>> \in StatusOrder]_vars

\* What does hold: the record of a request that has its own in-memory
\* tracker, where no write can raise and no second worker exists, changes in
\* that order only.
StatusOrderInMemory ==
    [][\A p \in Posts :
         memJobs'[p].status # memJobs[p].status =>
            <<memJobs[p].status, memJobs'[p].status>> \in StatusOrder]_vars

\* C35: on every exit path of the worker the first callback attempt comes
\* after the terminal status was written; the lock is released only after the
\* callback succeeded, gave up or was skipped; and the lock stays held, with
\* the worker's token, during all callback retries.
C35_CallbackThenRelease ==
    \A p \in OnKv :
        /\ (attempt[p] > 0 \/ cbOutcome[p] # "none") => lastSet[p] \in Terminal
        /\ wpc[p] \in {"release_lock", "release_delete"} => cbOutcome[p] # "none"
        /\ wpc[p] = "callback" => lock = token[p]

\* What does hold: release_lock is reached only from a callback that
\* succeeded, gave up or was skipped.
ReleaseAfterCallback ==
    \A p \in Posts :
        wpc[p] \in {"release_lock", "release_delete"} => cbOutcome[p] # "none"

\* C36: on every terminal path of the worker the status, result and error
\* of the callback payload equal those of the job record at the moment the
\* callback is sent.  Stated for a worker that wrote its terminal status,
\* while no key has expired and no other POST was accepted.
C36_PayloadEqualsRecord ==
    \A p \in Posts :
        (/\ wpc[p] = "callback" /\ lastSet[p] \in Terminal
         /\ ticks = 0 /\ Accepted = {p})
        => loc[p] = Stored(p)

\* C38: a lock acquired by a POST is released by its holder: when writing
\* RECEIVED fails after acquire_lock succeeded, the lock is released before
\* the error is returned.
C38_LockReleasedOnError ==
    \A p \in OnKv :
        (pc[p] = "done" /\ resp[p].code = 500 /\ token[p] # NoToken)
        => lock # token[p]

\* C39: a reload whose read of the KV hash fails leaves the in-memory
\* snapshot unchanged: every route resolve returned before the failed reload
\* is still returned after it.
C39_FailedReloadKeepsSnapshot ==
    [][\A r \in Slots :
         (rq[r].pc = "except" /\ rq'[r].pc # "except") =>
            \A key \in DOMAIN _routes :
                key \in DOMAIN _routes' /\ _routes'[key] = _routes[key]]_vars

\* C37: for every POST with a non-empty body the upstream receives a body:
\* the parsed JSON value when the body decodes as JSON (object, array or
\* scalar), otherwise the raw bytes unchanged; and it receives the query
\* parameters as the gateway received them.
C37_BodyAndQueryForwarded ==
    fwPc = "sent" =>
        /\ fwWire.query = fwRequest.query_params
        /\ (fwRequest.method = "POST" /\ fwRequest.raw_body # "") =>
              /\ fwWire.content # ""
              /\ IF json_loads(fwRequest.raw_body) # Raised
                 THEN json_loads(fwWire.content) = json_loads(fwRequest.raw_body)
                 ELSE fwWire.content = fwRequest.raw_body

\* What does hold: a JSON object and a body that is no JSON arrive upstream
\* as sent, and so does a query string without a repeated name.
ObjectAndRawForwarded ==
    fwPc = "sent" =>
        /\ (\A i, j \in DOMAIN fwRequest.query_params :
               fwRequest.query_params[i][1] = fwRequest.query_params[j][1] => i = j)
           => fwWire.query = fwRequest.query_params
        /\ (fwRequest.method = "POST" /\ fwRequest.raw_body # "") =>
              /\ json_loads(fwRequest.raw_body).type = "dict" =>
                    json_loads(fwWire.content) = json_loads(fwRequest.raw_body)
              /\ json_loads(fwRequest.raw_body) = Raised =>
                    fwWire.content = fwRequest.raw_body

\* C31: split_url(compose(server_path, server_file)) is (server_path,
\* server_file) for every server_path of the form scheme://netloc/dir and
\* every server_file without "/".
C31_SplitInvertsCompose ==
    splitPc = "done" =>
        splitOut = Split(splitIn.server_path, splitIn.server_file)

\* What does hold: the round trip for a lower-case scheme and a file name
\* without "?" and "#".
SplitInvertsComposePlain ==
    (/\ splitPc = "done"
     /\ splitIn.server_path[1] = SchemeLower(splitIn.server_path[1])
     /\ \A i \in DOMAIN splitIn.server_file :
           splitIn.server_file[i] \notin {"?", "#"})
    => splitOut = Split(splitIn.server_path, splitIn.server_file)

\* C32: upload_json_via_esb raises, and the job becomes FAILED with
\* upload_failed, whenever the upload response is not 2xx or its body is an
\* explicit false; it returns normally, and the job becomes SUCCEEDED, only
\* for a 2xx response whose body is not false.
C32_UploadFailsOnFalse ==
    LET answered == upOutcome # "none" /\ upIn.local_file = "exists"
        good == /\ 200 <= upResponse.status_code /\ upResponse.status_code < 300
                /\ upResponse.text # "false"
    IN  /\ answered => (upOutcome = "returned" <=> good)
        /\ (answered /\ upPc = "done") =>
              upJob.status = (IF good THEN "SUCCEEDED" ELSE "FAILED")

\* What does hold: every response that is not 2xx, and a missing answer,
\* make the upload raise and the job FAILED with upload_failed.
UploadFailsOnStatus ==
    (upOutcome # "none" /\ upIn.local_file = "exists"
       /\ ~(200 <= upResponse.status_code /\ upResponse.status_code < 300))
    => /\ upOutcome = "raised"
       /\ upPc = "done" => upJob = Record("FAILED", Null, "upload_failed")

EsbInvalidAnswered400 ==
    (esbPc = "done" /\ (esbReq.server_path = "" \/ esbReq.server_file = "")) =>
        /\ esbReply = EsbReply(400, "false", 0, TRUE)
        /\ esbServer = NotContacted

\* a table is installed only while none is installed, and an installed
\* table is never reset to None or replaced
InstalledOnce ==
    /\ installs' # installs => routes = "None"
    /\ routes = "RouteTable" =>
          routes' = "RouteTable" /\ installs' = installs /\ _routes' = _routes

\* C40: however many tasks call _init_routes_once concurrently, at most one
\* route-table build is in progress at any time, a table is installed in
\* app.state.routes only while none is installed, and once installed
\* app.state.routes is never reset to None or replaced by another table.
C40_OneBuildInProgress ==
    [][BuildsRunning <= 1 /\ BuildsRunning' <= 1 /\ InstalledOnce]_vars

\* C40 as the code has it: at most one task at a time is between acquiring
\* routes_lock and releasing it, so at most one build is awaited at any time
\* (a build abandoned at the timeout may still run in its thread while a
\* later one is started; its result is never installed); a table is
\* installed only while none is installed, and once installed it is never
\* reset to None or replaced.
C40_OneBuildAwaited ==
    [][/\ Cardinality(InsideLock) <= 1 /\ Cardinality(InsideLock') <= 1
       /\ (InsideLock # {} => InsideLock = {routes_lock})
       /\ InstalledOnce]_vars

\* a task's build ran into the timeout and its thread still runs, a later
\* task installed the table, and every task has returned
C40_Witness ==
    /\ routes = "RouteTable" /\ installs = 1 /\ threads > 0
    /\ \A t \in Tasks : initPc[t] = "done"
    /\ \E t \in Tasks : initRet[t] = "False"

====
